---- MODULE Spec2Model ----
(***************************************************************************)
(* Verification model of lander's TeX metadata extraction engine            *)
(* (lander.ext.parser.texutils): the command parser (extract.py) and the    *)
(* source normaliser (normalize.py).                                        *)
(*                                                                          *)
(* Text is a sequence of one-character strings.  Positions inside the       *)
(* operators are 1-based sequence indices; the offsets stored in a          *)
(* ParsedCommand (start_index) are Python's 0-based offsets.                *)
(***************************************************************************)
EXTENDS Integers, Sequences, FiniteSets, TLC

VARIABLES
    source,     \* parse(): the `source` argument
    command,    \* the LaTeXCommand: [name, elements]
    scan,       \* re.finditer: position where the next search begins
    yielded,    \* the ParsedCommands the generator has yielded, in order
    raised,     \* the error that ended the generator, or NoError
    pstate,     \* "idle" | "running" | "exhausted" | "raised"
    tex_source, \* remove_comments / remove_trailing_whitespace: the argument
    tex_out,    \* ... and the returned text
    nstate,     \* "idle" | "raw" | "remove_comments" | "remove_trailing_whitespace"
    project,    \* the files of the TeX project: file name -> content
    stack,      \* the nested read_tex_file / process_inputs calls
    rstate,     \* "idle" | "running" | "done" | "not_a_file" | "recursion_error"
    flattened,  \* what the outermost read_tex_file returned
    pass,       \* 1: the project's root file; 2: the output of pass 1
    first,      \* in pass 2: what pass 1 returned
    msource,    \* get_*_macros / replace_macros: the tex_source argument
    macros,     \* the macro table: (name, content) pairs in dict order
    mout,       \* what replace_macros returned
    mstate,     \* "idle" | "source" | the function that returned | the error
    doc_source, \* Parser.__init__ / LsstLatexDoc.read: what read_tex_file returned
    extractor,  \* "article" (ArticleParser) | "lsstdoc" (LsstLatexDoc)
    tex_macros, \* the scraped macro table
    doc_tex,    \* the source after replace_macros
    metadata,   \* the extracted fields: field name -> value
    dstate,     \* "idle" | "read" | "scraped" | "normalized" | "extracted" | "raised"
    steps,      \* the pipeline steps taken so far, in order
    doc_raised, \* the exception that reached the caller, or NoError
    commit_date, \* what get_content_commit_date gives: a timestamp or its error
    now,        \* the clock: what datetime.datetime.now() returns
    fs_tex,     \* FormattedString.from_latex: the `tex` argument
    pandoc,     \* what the converter does for each output format
    fs,         \* what from_latex returned or raised
    fstate,     \* "idle" | "called" | "returned"
    orcid_value, \* Orcid.validate / verify_checksum: the argument
    orcid,      \* what the call returned or raised
    ostate,     \* "idle" | "value" | "verify_checksum" | "validate"
    bib_cache,  \* _LSSTTEXMF_BIB_CACHE: name -> text
    bib_args,   \* get_lsst_bibtex: the argument of the latest call
    bib_result, \* ... and what it returned or raised
    bib_calls,  \* the number of calls made
    linker,     \* the BaseCommandLinker: CitedsLinker or CitedspLinker
    link_tex,   \* BaseCommandLinker.__call__: tex_source
    link_parsed, \* ... its local `parsed`
    lstate,     \* "idle" | "constructed" | "running" | "returned" | "raised"
    config,     \* Lander.upload_site: the configuration
    requests,   \* the requests sent to LTD Keeper and the bucket, in order
    token,      \* upload(): the local `token`
    build_resource, \* upload(): the local `build_resource`
    ustate      \* "idle" | "upload_site" | "upload" | "token" | "registered"
                \* | "uploaded" | "confirmed" | "raised"

parseVars == <<source, command, scan, yielded, raised, pstate>>
normVars == <<tex_source, tex_out, nstate>>
readVars == <<project, stack, rstate, flattened, pass, first>>

macroVars == <<msource, macros, mout, mstate>>
docVars == <<doc_source, extractor, tex_macros, doc_tex, metadata, dstate, steps,
            doc_raised>>

envVars == <<commit_date, now>>
fsVars == <<fs_tex, pandoc, fs, fstate>>
orcidVars == <<orcid_value, orcid, ostate>>
bibVars == <<bib_cache, bib_args, bib_result, bib_calls>>
linkVars == <<linker, link_tex, link_parsed, lstate>>
uploadVars == <<config, requests, token, build_resource, ustate>>
auxVars == <<envVars, fsVars, orcidVars, bibVars, linkVars, uploadVars>>

vars == <<parseVars, normVars, readVars, macroVars, docVars, auxVars>>

-----------------------------------------------------------------------------
(* Bounds of the enumerated inputs *)

\* Sources of the parser: at most MaxPieces pieces over the full alphabet.
MaxPieces == 4
\* Sources of the parser: "\t" followed by at most MaxBody bracket pieces.
MaxBody == 6
\* Sources of the parser: "\t" followed by at most MaxOptional pieces with
\* both kinds of brackets.
MaxOptional == 5
\* Texts given to remove_comments and remove_trailing_whitespace: at most
\* MaxText characters.
MaxText == 6
\* Root files of a project: at most MaxRootPieces pieces.
MaxRootPieces == 3
\* Nested read_tex_file calls before the interpreter's recursion limit
\* ends the run (more than the project has files).
MaxDepth == 4
\* Pieces after \def / \newcommand in a macro source built piece by piece.
MaxDeclBody == 6
\* Declarations and uses in a macro source built from whole declarations.
MaxDecls == 3
\* Pieces of a running text that uses macros.
MaxUses == 5
\* Most pieces a document source is assembled from.
MaxDocPieces == 2
\* Most pieces the source of an LsstLatexDoc is assembled from.
MaxLsstPieces == 2
\* Most pieces the argument of \author is assembled from.
MaxAuthorPieces == 4
\* Most pieces the argument of from_latex is assembled from.
MaxTexPieces == 4
\* The digits before the check character that vary in an ORCiD identifier.
MaxOrcidFree == 3
\* Calls of get_lsst_bibtex in one run, and file names in one call.
MaxBibCalls == 3
MaxBibNames == 2
\* Pieces after the first citation command of a text given to a linker, and
\* the longest text the linking loop is followed to.
MaxLinkPieces == 4
MaxLinkText == 400

-----------------------------------------------------------------------------
(* Text helpers *)

Min(S) == CHOOSE x \in S : \A y \in S : x <= y
Max(S) == CHOOSE x \in S : \A y \in S : x >= y

\* The characters of the model's alphabet that Python's \s / str.strip()
\* treat as whitespace.
WhitespaceChars == {" ", "\n", "\t"}

\* s[from..] (Python s[from-1:]).
From(s, from) == SubSeq(s, from, Len(s))

\* Mutant of Strip: the text is kept as it is.
NoStrip(s) == s

\* str.strip()
Strip(s) ==
    LET keep == {i \in 1..Len(s) : s[i] \notin WhitespaceChars}
    IN  IF keep = {} THEN <<>> ELSE SubSeq(s, Min(keep), Max(keep))

RECURSIVE Flatten(_)
Flatten(ps) == IF ps = <<>> THEN <<>> ELSE Head(ps) \o Flatten(Tail(ps))

-----------------------------------------------------------------------------
(* LaTeXCommand._make_command_regex / LaTeXCommand.parse *)

\* The character class [\s{[%] that must follow the command name.
CommandFollowers == WhitespaceChars \cup {"{", "[", "%"}

\* Mutant: the bare name matches, whatever follows it.
CommandMatchAtAnyFollower(s, i, name) ==
    /\ i + Len(name) + 1 <= Len(s)
    /\ s[i] = "\\"
    /\ SubSeq(s, i + 1, i + Len(name)) = name

\* The regex \\<name>(?:[\s{[%]) matches s at position i.
CommandMatchAt(s, i, name) ==
    /\ i + Len(name) + 1 <= Len(s)
    /\ s[i] = "\\"
    /\ SubSeq(s, i + 1, i + Len(name)) = name
    /\ s[i + Len(name) + 1] \in CommandFollowers

\* re.search / the next re.finditer match at or after `from`; 0 when none.
FindCommand(s, from, name) ==
    LET hits == {i \in from..Len(s) : CommandMatchAt(s, i, name)}
    IN  IF hits = {} THEN 0 ELSE Min(hits)

\* End of the match that starts at i (position after its last character).
CommandMatchEnd(i, name) == i + Len(name) + 2

-----------------------------------------------------------------------------
(* LaTeXCommand._parse_whitespace_argument *)

\* The class [ %\t\n] that ends a whitespace-delimited argument.
TokenTerminators == {" ", "%", "\t", "\n"}

\* (?P<content>\S+)(?:[ %\t\n]+) tried at start p: the ends e of a run of
\* non-whitespace p..e that is followed by a terminator.
TokenEnds(s, p) ==
    {e \in p..(Len(s) - 1) :
        /\ \A k \in p..e : s[k] \notin WhitespaceChars
        /\ s[e + 1] \in TokenTerminators}

\* re.search of the token pattern: leftmost start, longest (greedy) run.
\* <<>> stands for "no match"; a match is never empty.
FindToken(s) ==
    LET starts == {p \in 1..Len(s) : TokenEnds(s, p) # {}}
    IN  IF starts = {} THEN <<>>
        ELSE LET p == Min(starts) IN SubSeq(s, p, Max(TokenEnds(s, p)))

\* The text the token is searched in: after the name of the first command
\* match in `src` (command_match.end(1)), or all of `src` when none matches.
AfterCommandName(src, name) ==
    LET m == FindCommand(src, 1, name)
    IN  IF m = 0 THEN src ELSE From(src, m + Len(name) + 1)

\* Returns the token, or <<>> when the code raises RuntimeError.
ParseWhitespaceArgument(src, name) == FindToken(AfterCommandName(src, name))

-----------------------------------------------------------------------------
(* LaTeXCommand._parse_command *)

\* LaTeXCommand._brackets
ClosingBracket(opening) == IF opening = "[" THEN "]" ELSE "}"

\* The first loop of an element: the position of the first opening bracket
\* or newline at or after `running`, whichever comes first; 0 when the
\* source ends before either.
FindOpening(s, running, opening) ==
    LET stops == {i \in running..Len(s) : s[i] = opening \/ s[i] = "\n"}
    IN  IF stops = {} THEN 0 ELSE Min(stops)

\* Mutant: the closing-bracket scan stops at the first closing bracket,
\* without counting nested opening brackets.
RECURSIVE FindClosingUnbalanced(_, _, _, _, _)
FindClosingUnbalanced(s, i, balance, opening, closing) ==
    IF i > Len(s) THEN 0
    ELSE IF s[i] = closing THEN i
    ELSE FindClosingUnbalanced(s, i + 1, balance, opening, closing)

\* The second loop of an element, entered at i = element_start + 1 with
\* balance = 1: the position where balance reaches 0; 0 when the source
\* ends with balance > 0.
RECURSIVE FindClosing(_, _, _, _, _)
FindClosing(s, i, balance, opening, closing) ==
    IF i > Len(s) THEN 0
    ELSE LET b == IF s[i] = opening THEN balance + 1
                  ELSE IF s[i] = closing THEN balance - 1
                  ELSE balance
         IN  IF b = 0 THEN i ELSE FindClosing(s, i + 1, b, opening, closing)

ParsedElement(element, content) ==
    [index |-> element.index, name |-> element.name, content |-> content]

\* What one pass of the element loop did.  `running`, `element_start` and
\* `element_end` are the locals of _parse_command (0 for None).
SlotRecord(element, running, es, ee, outcome) ==
    [index |-> element.index, running |-> running, element_start |-> es,
     element_end |-> ee, outcome |-> outcome]

ParsedCommand(name, parsed_elements, start, command_source, slots) ==
    [kind |-> "parsed", name |-> name, parsed_elements |-> parsed_elements,
     start_index |-> start - 1, command_source |-> command_source,
     slots |-> slots]

\* RuntimeError raised by _parse_command / _parse_whitespace_argument.
ParseError(name, start, element, what, slots) ==
    [kind |-> "error", name |-> name, start_index |-> start - 1,
     element |-> element.index, what |-> what, slots |-> slots]

\* Mutant: a required element whose bracket is missing is skipped like an
\* optional one.
SkipWhenMissing(element) == TRUE

\* `element_start is None and element.required is False`
MaySkip(element) == element.required = FALSE

\* Mutant: the fallback returns the elements parsed so far too.
FallbackElementsKeepParsed(parsed, element, content) ==
    Append(parsed, ParsedElement(element, content))

\* The element list of the ParsedCommand returned by the whitespace fallback.
FallbackElements(parsed, element, content) ==
    <<ParsedElement(element, content)>>

\* Mutant: an absent optional element is stored with empty content.
AbsentElementStored(parsed, element) == Append(parsed, ParsedElement(element, <<>>))

\* parsed_elements after an optional element was not found (`continue`).
AbsentElement(parsed, element) == parsed

\* The element loop from element number k (1-based) on.
RECURSIVE ParseElements(_, _, _, _, _, _, _)
ParseElements(s, cmd, start, k, running, parsed, slots) ==
    IF k > Len(cmd.elements)
    THEN ParsedCommand(cmd.name, parsed, start,
                       SubSeq(s, start, running - 1), slots)
    ELSE
    LET element == cmd.elements[k]
        opening == element.bracket
        closing == ClosingBracket(opening)
        stop    == FindOpening(s, running, opening)
        found   == stop # 0 /\ s[stop] = opening
        newline == stop # 0 /\ s[stop] = "\n"
    IN
    IF newline /\ element.required
    THEN LET content == ParseWhitespaceArgument(From(s, running), cmd.name)
             slot == SlotRecord(element, running, 0, 0,
                        IF content = <<>> THEN "no_token" ELSE "fallback")
         IN  IF content = <<>>
             THEN ParseError(cmd.name, start, element, "no_token",
                             Append(slots, slot))
             ELSE ParsedCommand(cmd.name,
                     FallbackElements(parsed, element, Strip(content)),
                     start, SubSeq(s, start, stop - 1), Append(slots, slot))
    ELSE IF ~found
    THEN IF MaySkip(element)
         THEN ParseElements(s, cmd, start, k + 1, running,
                 AbsentElement(parsed, element),
                 Append(slots, SlotRecord(element, running, 0, 0, "absent")))
         ELSE ParseError(cmd.name, start, element, "no_element",
                 Append(slots, SlotRecord(element, running, 0, 0, "no_element")))
    ELSE
    LET ee == FindClosing(s, stop + 1, 1, opening, closing)
    IN  IF ee = 0
        THEN ParseError(cmd.name, start, element, "no_closing",
                Append(slots, SlotRecord(element, running, stop, 0, "no_closing")))
        ELSE ParseElements(s, cmd, start, k + 1, ee + 1,
                Append(parsed,
                       ParsedElement(element, Strip(SubSeq(s, stop + 1, ee - 1)))),
                Append(slots, SlotRecord(element, running, stop, ee, "parsed")))

ParseCommand(s, cmd, start) == ParseElements(s, cmd, start, 1, start, <<>>, <<>>)

-----------------------------------------------------------------------------
(* ParsedCommand.__getitem__ / __contains__ / _get_element *)

\* _get_element: the first parsed element with that index (an integer key)
\* or that name (a string key); NotFound stands for KeyError.
NotFound == [kind |-> "KeyError"]

\* isinstance(key, int): by element index.
GetElementByIndex(pc, key) ==
    LET es   == pc.parsed_elements
        hits == {i \in 1..Len(es) : es[i].index = key}
    IN  IF hits = {} THEN NotFound ELSE es[Min(hits)]

\* otherwise: by element name.
GetElementByName(pc, key) ==
    LET es   == pc.parsed_elements
        hits == {i \in 1..Len(es) : es[i].name = key}
    IN  IF hits = {} THEN NotFound ELSE es[Min(hits)]

\* __contains__
ContainsIndex(pc, key) == GetElementByIndex(pc, key) # NotFound
ContainsName(pc, key) == GetElementByName(pc, key) # NotFound

-----------------------------------------------------------------------------
(* The parser's inputs *)

Element(index, bracket, required, name) ==
    [index |-> index, bracket |-> bracket, required |-> required, name |-> name]

\* LaTeXCommand.__init__: element.index = i for i, element in enumerate(...)
LaTeXCommand(name, elements) == [name |-> name, elements |-> elements]

\* The one-letter command name of the model.
CommandName == <<"t">>

\* One required {} element, like \input, \author, \setDocAbstract.
InputCommand ==
    LaTeXCommand(CommandName, <<Element(0, "{", TRUE, "content")>>)

\* An optional [] element then a required {} element, like \title.
TitleCommand ==
    LaTeXCommand(CommandName, <<Element(0, "[", FALSE, "short_title"),
                                Element(1, "{", TRUE, "long_title")>>)

\* Two required {} elements, like \newcommand.
NewCommand ==
    LaTeXCommand(CommandName, <<Element(0, "{", TRUE, "name"),
                                Element(1, "{", TRUE, "content")>>)

Commands == {InputCommand, TitleCommand, NewCommand}

\* An invocation of the command, without its arguments.
CommandPiece == <<"\\">> \o CommandName

\* "\t" is the command; "\ta" stands for a longer command name that has the
\* command name as a prefix (\title and \titlename).
Pieces == {CommandPiece, <<"a">>, <<"{">>, <<"}">>, <<"[">>, <<"]">>,
           <<" ">>, <<"\n">>, <<"%">>}

BodyPieces == {CommandPiece, <<"a">>, <<"{">>, <<"}">>, <<" ">>, <<"\n">>}

OptionalPieces == {<<"a">>, <<"{">>, <<"}">>, <<"[">>, <<"]">>}

-----------------------------------------------------------------------------
(* LaTeXCommand.parse as a generator *)

NoError == [kind |-> "none"]

ParseIdle ==
    /\ source = <<>>
    /\ command = [name |-> <<>>, elements |-> <<>>]
    /\ scan = 1
    /\ yielded = <<>>
    /\ raised = NoError
    /\ pstate = "idle"

NormIdle ==
    /\ tex_source = <<>>
    /\ tex_out = <<>>
    /\ nstate = "idle"

ReadIdle ==
    /\ project = <<>>
    /\ stack = <<>>
    /\ rstate = "idle"
    /\ flattened = <<>>
    /\ pass = 1
    /\ first = <<>>

MacroIdle ==
    /\ msource = <<>>
    /\ macros = <<>>
    /\ mout = <<>>
    /\ mstate = "idle"

DocIdle ==
    /\ doc_source = <<>>
    /\ extractor = "none"
    /\ tex_macros = <<>>
    /\ doc_tex = <<>>
    /\ metadata = <<>>
    /\ dstate = "idle"
    /\ steps = <<>>
    /\ doc_raised = NoError

EnvIdle ==
    /\ commit_date = NoError
    /\ now = 0

FsIdle ==
    /\ fs_tex = <<>>
    /\ pandoc = <<>>
    /\ fs = NoError
    /\ fstate = "idle"

OrcidIdle ==
    /\ orcid_value = <<>>
    /\ orcid = NoError
    /\ ostate = "idle"

BibIdle ==
    /\ bib_cache = <<>>
    /\ bib_args = NoError
    /\ bib_result = NoError
    /\ bib_calls = 0

LinkIdle ==
    /\ linker = NoError
    /\ link_tex = <<>>
    /\ link_parsed = NoError
    /\ lstate = "idle"

UploadIdle ==
    /\ config = NoError
    /\ requests = <<>>
    /\ token = NoError
    /\ build_resource = NoError
    /\ ustate = "idle"

\* The groups that only the specifications of the later sections move.
RestIdle == FsIdle /\ OrcidIdle /\ BibIdle /\ LinkIdle /\ UploadIdle

AuxIdle == EnvIdle /\ RestIdle

ParseInit ==
    /\ AuxIdle
    /\ NormIdle
    /\ ReadIdle
    /\ MacroIdle
    /\ DocIdle
    /\ \/ \E k \in 0..MaxPieces : \E ps \in [1..k -> Pieces] :
             source = Flatten(ps)
       \/ \E k \in 0..MaxBody : \E ps \in [1..k -> BodyPieces] :
             source = CommandPiece \o Flatten(ps)
       \/ \E k \in 0..MaxOptional : \E ps \in [1..k -> OptionalPieces] :
             source = CommandPiece \o Flatten(ps)
    /\ command \in Commands
    /\ scan = 1
    /\ yielded = <<>>
    /\ raised = NoError
    /\ pstate = "running"

\* The next match of re.finditer, 0 when there is none.
NextMatch == FindCommand(source, scan, command.name)

\* next(): the next match parses; the generator yields the ParsedCommand.
ParseYield ==
    /\ pstate = "running"
    /\ NextMatch # 0
    /\ LET r == ParseCommand(source, command, NextMatch)
       IN  /\ r.kind = "parsed"
           /\ yielded' = Append(yielded, r)
           /\ scan' = CommandMatchEnd(NextMatch, command.name)
    /\ UNCHANGED <<source, command, raised, pstate>>

\* next(): _parse_command raises; the generator is finished by the error.
ParseRaise ==
    /\ pstate = "running"
    /\ NextMatch # 0
    /\ LET r == ParseCommand(source, command, NextMatch)
       IN  /\ r.kind = "error"
           /\ raised' = r
           /\ pstate' = "raised"
    /\ UNCHANGED <<source, command, scan, yielded>>

\* next(): no further match; StopIteration.
ParseExhausted ==
    /\ pstate = "running"
    /\ NextMatch = 0
    /\ pstate' = "exhausted"
    /\ UNCHANGED <<source, command, scan, yielded, raised>>

ParseNext ==
    \/ ParseYield /\ UNCHANGED <<normVars, readVars, macroVars, docVars, auxVars>>
    \/ ParseRaise /\ UNCHANGED <<normVars, readVars, macroVars, docVars, auxVars>>
    \/ ParseExhausted /\ UNCHANGED <<normVars, readVars, macroVars, docVars, auxVars>>

SpecParse == ParseInit /\ [][ParseNext]_vars

-----------------------------------------------------------------------------
(* Claims about the command parser, checked under SpecParse *)

\* The invocations next() has handled: yielded, or ended by an error.
Handled ==
    {yielded[k] : k \in 1..Len(yielded)}
    \cup (IF raised = NoError THEN {} ELSE {raised})

Chars(s) == {s[i] : i \in 1..Len(s)}

Count(c, a, b) == Cardinality({i \in a..b : source[i] = c})

\* The least position after `es` at which as many closing as opening
\* brackets have been read since (and including) es; 0 when there is none.
BalancePoint(es, opening, closing) ==
    LET js == {j \in (es + 1)..Len(source) :
                  Count(opening, es, j) = Count(closing, es, j)}
    IN  IF js = {} THEN 0 ELSE Min(js)

ElementOf(index) ==
    command.elements[CHOOSE k \in 1..Len(command.elements) :
                        command.elements[k].index = index]

UsedFallback(pc) ==
    \E k \in 1..Len(pc.slots) : pc.slots[k].outcome \in {"fallback", "no_token"}

\* C1: every ParsedCommand that parse yields starts at an offset where the
\* source reads a backslash, the command name, and then one of whitespace,
\* '{', '[' or '%'; an occurrence of a longer name (\ta for \t) yields nothing.
C1_YieldedOnlyAtDelimitedName ==
    \A k \in 1..Len(yielded) :
        LET i == yielded[k].start_index + 1
            n == Len(command.name)
        IN  /\ i + n + 1 <= Len(source)
            /\ source[i] = "\\"
            /\ \A j \in 1..n : source[i + j] = command.name[j]
            /\ source[i + n + 1] \in {" ", "\t", "\n", "{", "[", "%"}

\* A longer command name occurs in the source next to a yielded command.
C1_Witness ==
    /\ pstate = "exhausted"
    /\ Len(yielded) = 1
    /\ \E i \in 1..(Len(source) - 3) :
          /\ SubSeq(source, i, i + 2) = <<"\\", "t", "a">>
          /\ source[i + 3] = "{"

\* C2: the value of a slot whose opening bracket was found is the text
\* strictly between that bracket and the first later closing bracket at which
\* the opening-minus-closing count of that bracket kind returns to zero,
\* stripped of leading and trailing whitespace.
C2_SlotValueIsBalancedGroup ==
    \A k \in 1..Len(yielded) :
        LET pc == yielded[k] IN
        ~UsedFallback(pc) =>
        \A m \in 1..Len(pc.slots) :
            LET slot    == pc.slots[m]
                opening == ElementOf(slot.index).bracket
                closing == IF opening = "{" THEN "}" ELSE "]"
                es      == slot.element_start
                ee      == BalancePoint(es, opening, closing)
            IN  slot.outcome = "parsed" =>
                /\ source[es] = opening
                /\ ee # 0
                /\ GetElementByIndex(pc, slot.index) # NotFound
                /\ GetElementByIndex(pc, slot.index).content
                      = Strip(SubSeq(source, es + 1, ee - 1))

\* \t{a{a}} with one required {} slot gives a{a}.
C2_Witness ==
    /\ command = InputCommand
    /\ Len(yielded) = 1
    /\ GetElementByIndex(yielded[1], 0) # NotFound
    /\ GetElementByIndex(yielded[1], 0).content = <<"a", "{", "a", "}">>

\* C3: with an optional [] slot followed by a required {} slot and a source
\* holding no '[' at all, every invocation \name{X} parses without error, the
\* optional slot is absent from the ParsedCommand (not found by index or by
\* name, not stored empty) and the required slot is X stripped.
C3_OptionalAbsentWithoutSquareBracket ==
    (command = TitleCommand /\ "[" \notin Chars(source)) =>
    \A pc \in Handled :
        LET i  == pc.start_index + 1
            es == i + Len(command.name) + 1
            ee == BalancePoint(es, "{", "}")
        IN  (source[es] = "{" /\ ee # 0) =>
            /\ pc.kind = "parsed"
            /\ ~ContainsIndex(pc, 0)
            /\ ~ContainsName(pc, "short_title")
            /\ Len(pc.parsed_elements) = 1
            /\ ContainsIndex(pc, 1)
            /\ GetElementByIndex(pc, 1).content
                  = Strip(SubSeq(source, es + 1, ee - 1))
            /\ GetElementByName(pc, "long_title") = GetElementByIndex(pc, 1)

\* \t{ a} parsed by the title command, no '[' in the source.
C3_Witness ==
    /\ command = TitleCommand
    /\ "[" \notin Chars(source)
    /\ Len(yielded) = 1
    /\ source[yielded[1].start_index + 3] = "{"
    /\ ~ContainsName(yielded[1], "short_title")
    /\ GetElementByName(yielded[1], "long_title").content = <<"a">>
    /\ " " \in Chars(yielded[1].command_source)

\* The slot at which the newline fallback was taken (the last one tried).
FallbackSlot(pc) == pc.slots[Len(pc.slots)]

\* The first maximal run of non-whitespace characters at or after `from`
\* (<<>> when only whitespace follows), and the position after it.
FirstRunStart(from) ==
    LET ps == {p \in from..Len(source) : source[p] \notin WhitespaceChars}
    IN  IF ps = {} THEN 0 ELSE Min(ps)

FirstRunEnd(from) ==
    LET p  == FirstRunStart(from)
        qs == {q \in p..Len(source) :
                  \A k \in p..q : source[k] \notin WhitespaceChars}
    IN  IF p = 0 THEN 0 ELSE Max(qs)

\* C4 as stated: whenever the scan for a required slot's opening bracket
\* meets a newline first, parse yields a ParsedCommand whose only argument is
\* that slot, valued with the whitespace-delimited token that follows the
\* command name.
C4_FallbackAlwaysYieldsToken ==
    \A pc \in Handled :
        UsedFallback(pc) =>
        LET slot == FallbackSlot(pc)
            from == pc.start_index + Len(command.name) + 2
        IN  /\ pc.kind = "parsed"
            /\ Len(pc.parsed_elements) = 1
            /\ pc.parsed_elements[1].index = slot.index
            /\ FirstRunStart(from) # 0
            /\ pc.parsed_elements[1].content
                  = SubSeq(source, FirstRunStart(from), FirstRunEnd(from))

\* C4 amended: when the scan for a required slot's opening bracket meets a
\* newline first, no further slot is attempted and a yielded ParsedCommand
\* has that slot as its only argument.  When the slot was scanned from the
\* command itself (no earlier slot consumed text): if the first run of
\* non-whitespace characters after the command name is followed by a
\* whitespace character, the command is yielded with that run as the value;
\* if only whitespace follows the command name, parse raises.
C4_FallbackTokenOrError ==
    \A pc \in Handled :
        UsedFallback(pc) =>
        LET slot == FallbackSlot(pc)
            from == pc.start_index + Len(command.name) + 2
            p    == FirstRunStart(from)
            q    == FirstRunEnd(from)
        IN  /\ \A k \in 1..(Len(pc.slots) - 1) :
                 pc.slots[k].outcome \in {"parsed", "absent"}
            /\ ElementOf(slot.index).required
            /\ pc.kind = "parsed" =>
                 /\ Len(pc.parsed_elements) = 1
                 /\ pc.parsed_elements[1].index = slot.index
                 /\ pc.parsed_elements[1].name = ElementOf(slot.index).name
            /\ (slot.running = pc.start_index + 1 /\ p # 0 /\ q < Len(source)) =>
                 /\ pc.kind = "parsed"
                 /\ pc.parsed_elements[1].content = SubSeq(source, p, q)
            /\ (slot.running = pc.start_index + 1 /\ p = 0) =>
                 pc.kind = "error"

\* "\t a\n" with one required {} slot gives a.
C4_Witness ==
    /\ command = InputCommand
    /\ Len(yielded) = 1
    /\ UsedFallback(yielded[1])
    /\ source = <<"\\", "t", " ", "a", "\n">>
    /\ yielded[1].parsed_elements = <<[index |-> 0, name |-> "content",
                                       content |-> <<"a">>]>>

\* C5: when a required slot's opening bracket is not found before the end of
\* the source, no newline being met on the way, or an opening bracket is found
\* whose balance never returns to zero, the invocation raises: it yields no
\* ParsedCommand, and a yielded ParsedCommand that did not take the newline
\* fallback holds every required slot.
C5_MissingRequiredRaises ==
    /\ \A pc \in Handled :
          \A m \in 1..Len(pc.slots) :
              LET slot    == pc.slots[m]
                  element == ElementOf(slot.index)
                  opening == element.bracket
                  closing == IF opening = "{" THEN "}" ELSE "]"
                  rest    == Chars(From(source, slot.running))
              IN  /\ (element.required /\ opening \notin rest /\ "\n" \notin rest)
                        => (pc.kind = "error" /\ pc.element = slot.index)
                  /\ (slot.element_start # 0
                        /\ BalancePoint(slot.element_start, opening, closing) = 0)
                        => (pc.kind = "error" /\ pc.element = slot.index)
    /\ \A k \in 1..Len(yielded) :
          ~UsedFallback(yielded[k]) =>
          \A e \in 1..Len(command.elements) :
              command.elements[e].required =>
                  ContainsIndex(yielded[k], command.elements[e].index)
    /\ \A pc \in Handled :
          LET i    == pc.start_index + 1
              rest == Chars(From(source, i))
          IN  (command.elements[1].required /\ "{" \notin rest /\ "\n" \notin rest)
                 => (pc = raised /\ pc.element = 0)
    /\ raised # NoError =>
          /\ pstate = "raised"
          /\ \A k \in 1..Len(yielded) : yielded[k].start_index < raised.start_index

\* A second invocation whose brace is never closed ends the generator after
\* the first one was yielded.
C5_Witness ==
    /\ Len(yielded) = 1
    /\ raised # NoError
    /\ raised.what = "no_closing"
    /\ raised.start_index > 0

-----------------------------------------------------------------------------
(* normalize.py: remove_comments, remove_trailing_whitespace *)

\* The position of the first newline at or after i; Len(s) + 1 when the
\* last line is reached ('$' with re.MULTILINE).
EndOfLine(s, i) ==
    LET ns == {j \in i..Len(s) : s[j] = "\n"}
    IN  IF ns = {} THEN Len(s) + 1 ELSE Min(ns)

\* Mutant: the lookbehind (?<!\\) is left out.
CommentStartsAtAnyPercent(s, i) == s[i] = "%"

\* (?<!\\)% matches at position i.
CommentStartsAt(s, i) == s[i] = "%" /\ (i = 1 \/ s[i - 1] # "\\")

\* re.sub(r"(?<!\\)%.*$", "", s, flags=re.MULTILINE), scanning from i.
RECURSIVE RemoveCommentsFrom(_, _)
RemoveCommentsFrom(s, i) ==
    IF i > Len(s) THEN <<>>
    ELSE IF CommentStartsAt(s, i)
         THEN RemoveCommentsFrom(s, EndOfLine(s, i))
         ELSE <<s[i]>> \o RemoveCommentsFrom(s, i + 1)

RemoveComments(s) == RemoveCommentsFrom(s, 1)

\* The class [ \t].
Blanks == {" ", "\t"}

\* Mutant: '$' without re.MULTILINE: the end of the text, or just before a
\* newline that ends the text.
TrailingRunAtEndOfText(s, i) ==
    /\ s[i] \in Blanks
    /\ \/ \A k \in i..Len(s) : s[k] \in Blanks
       \/ /\ s[Len(s)] = "\n"
          /\ \A k \in i..(Len(s) - 1) : s[k] \in Blanks

\* [ \t]+$ matches at position i: blanks from i up to the end of the line.
TrailingRunAt(s, i) ==
    /\ s[i] \in Blanks
    /\ \A k \in i..(EndOfLine(s, i) - 1) : s[k] \in Blanks

\* re.sub(r"[ \t]+$", "", s, flags=re.MULTILINE), scanning from i.
RECURSIVE RemoveTrailingFrom(_, _)
RemoveTrailingFrom(s, i) ==
    IF i > Len(s) THEN <<>>
    ELSE IF TrailingRunAt(s, i)
         THEN RemoveTrailingFrom(s, EndOfLine(s, i))
         ELSE <<s[i]>> \o RemoveTrailingFrom(s, i + 1)

RemoveTrailingWhitespace(s) == RemoveTrailingFrom(s, 1)

TextChars == {"a", " ", "\t", "\n", "%", "\\"}

NormInit ==
    /\ AuxIdle
    /\ ParseIdle
    /\ ReadIdle
    /\ MacroIdle
    /\ DocIdle
    /\ \E k \in 0..MaxText : tex_source \in [1..k -> TextChars]
    /\ tex_out = <<>>
    /\ nstate = "raw"

\* remove_comments(tex_source), on a raw text.
CallRemoveComments ==
    /\ nstate = "raw"
    /\ tex_out' = RemoveComments(tex_source)
    /\ nstate' = "remove_comments"
    /\ UNCHANGED tex_source

\* remove_trailing_whitespace(tex_source), on a raw text.
CallRemoveTrailingWhitespace ==
    /\ nstate = "raw"
    /\ tex_out' = RemoveTrailingWhitespace(tex_source)
    /\ nstate' = "remove_trailing_whitespace"
    /\ UNCHANGED tex_source

\* read_tex_file's second pipeline step: remove_trailing_whitespace on what
\* remove_comments returned.
PipeRemoveTrailingWhitespace ==
    /\ nstate = "remove_comments"
    /\ tex_source' = tex_out
    /\ tex_out' = RemoveTrailingWhitespace(tex_out)
    /\ nstate' = "remove_trailing_whitespace"

NormNext ==
    \/ CallRemoveComments /\ UNCHANGED <<parseVars, readVars, macroVars, docVars, auxVars>>
    \/ CallRemoveTrailingWhitespace /\ UNCHANGED <<parseVars, readVars, macroVars, docVars, auxVars>>
    \/ PipeRemoveTrailingWhitespace /\ UNCHANGED <<parseVars, readVars, macroVars, docVars, auxVars>>

SpecNorm == NormInit /\ [][NormNext]_vars

-----------------------------------------------------------------------------
(* Claims about remove_comments and remove_trailing_whitespace, checked
   under SpecNorm *)

\* The positions of s that a selection keeps, as a text.
RECURSIVE Pick(_, _, _)
Pick(s, keep, i) ==
    IF i > Len(s) THEN <<>>
    ELSE (IF i \in keep THEN <<s[i]>> ELSE <<>>) \o Pick(s, keep, i + 1)

\* The position where the line holding position i starts.
LineStart(s, i) ==
    LET ns == {j \in 1..(i - 1) : s[j] = "\n"}
    IN  IF ns = {} THEN 1 ELSE Max(ns) + 1

Unescaped(s, i) == s[i] = "%" /\ (i = 1 \/ s[i - 1] # "\\")

\* Position i lies in a comment: at or after an unescaped '%' of its line,
\* and is not the newline.
InComment(s, i) ==
    /\ s[i] # "\n"
    /\ \E j \in LineStart(s, i)..i : Unescaped(s, j)

\* C8: remove_comments deletes, on every line, everything from the first '%'
\* not immediately preceded by a backslash up to (not including) the end of
\* the line, and nothing else; newlines and escaped \% are kept, and every '%'
\* left in the result is immediately preceded by a backslash.
C8_RemoveCommentsLinewise ==
    nstate = "remove_comments" =>
    /\ tex_out = Pick(tex_source,
                      {i \in 1..Len(tex_source) : ~InComment(tex_source, i)}, 1)
    /\ \A i \in 1..Len(tex_out) :
          tex_out[i] = "%" => (i > 1 /\ tex_out[i - 1] = "\\")
    /\ Cardinality({i \in 1..Len(tex_out) : tex_out[i] = "\n"})
          = Cardinality({i \in 1..Len(tex_source) : tex_source[i] = "\n"})

\* "a\%%a" followed by a newline and "a": the escaped percent and the newline
\* stay, the comment goes.
C8_Witness ==
    /\ nstate = "remove_comments"
    /\ tex_source = <<"\\", "%", "%", "a", "\n", "a">>
    /\ tex_out = <<"\\", "%", "\n", "a">>

\* Position i belongs to the run of spaces and tabs that ends its line.
InTrailingRun(s, i) ==
    \A k \in i..Len(s) :
        (\A j \in i..(k - 1) : s[j] # "\n") => (s[k] \in Blanks \/ s[k] = "\n")

\* C9: remove_trailing_whitespace removes exactly the maximal run of spaces
\* and tabs at the end of each line, the last line included: no line of the
\* result ends with a space or tab, the newlines are those of the argument,
\* and every other character is unchanged.
C9_RemoveTrailingWhitespaceLinewise ==
    nstate = "remove_trailing_whitespace" =>
    /\ tex_out = Pick(tex_source,
                      {i \in 1..Len(tex_source) :
                          ~(tex_source[i] \in Blanks /\ InTrailingRun(tex_source, i))}, 1)
    /\ \A i \in 1..Len(tex_out) :
          tex_out[i] \in Blanks => (i < Len(tex_out) /\ tex_out[i + 1] # "\n")
    /\ Cardinality({i \in 1..Len(tex_out) : tex_out[i] = "\n"})
          = Cardinality({i \in 1..Len(tex_source) : tex_source[i] = "\n"})

\* "a " + tab, newline, "a a ": both lines lose their trailing blanks, the
\* inner space stays.
C9_Witness ==
    /\ nstate = "remove_trailing_whitespace"
    /\ tex_source = <<"a", " ", "\t", "\n", "a", " ">>
    /\ tex_out = <<"a", "\n", "a">>

-----------------------------------------------------------------------------
(* normalize.py: input_include_pattern, read_tex_file, process_inputs *)

\* s[i], or "" beyond the ends of s.
At(s, i) == IF i \in 1..Len(s) THEN s[i] ELSE ""

\* The letters of the model's alphabet (all matched by \w).
Letters == {"a", "b", "c", "d", "e", "i", "l", "n", "p", "t", "u", "x", "y", "z"}

\* The class [\w/\-\.] of the file name.
FilenameChars == Letters \cup {"/", "-", "."}

\* The class [\}%\s] that must follow the file name.
FilenameClosers == WhitespaceChars \cup {"}", "%"}

Input == <<"i", "n", "p", "u", "t">>
Include == <<"i", "n", "c", "l", "u", "d", "e">>

\* \\(?P<command>input|include) at position i: the position after the
\* command name, 0 when neither name is there.
IncludeNameEnd(s, i) ==
    IF At(s, i) # "\\" THEN 0
    ELSE IF SubSeq(s, i + 1, i + Len(Input)) = Input THEN i + Len(Input) + 1
    ELSE IF SubSeq(s, i + 1, i + Len(Include)) = Include THEN i + Len(Include) + 1
    ELSE 0

\* The end of the maximal run of characters of `class` that starts at i
\* (i - 1 when s[i] is not in the class).
RECURSIVE RunEnd(_, _, _)
RunEnd(s, i, class) ==
    IF At(s, i) \in class THEN RunEnd(s, i + 1, class) ELSE i - 1

\* (([ ]*\{)|([ ]+)): where the file name starts, 0 when neither
\* alternative matches after the command name that ends before j.
FilenameStart(s, j) ==
    LET k == RunEnd(s, j, {" "}) + 1
    IN  IF At(s, k) = "{" THEN k + 1
        ELSE IF k > j THEN k
        ELSE 0

\* [\}%\s]: the file name that ends at g is followed by a closer.
FilenameClosed(s, g) == At(s, g + 1) \in FilenameClosers

NoMatch == [matched |-> FALSE]

\* input_include_pattern at position i: the file name and the position
\* after the match (the closer is part of the match).
IncludeMatchAt(s, i) ==
    LET j == IncludeNameEnd(s, i)
        f == IF j = 0 THEN 0 ELSE FilenameStart(s, j)
        g == IF f = 0 THEN 0 ELSE RunEnd(s, f, FilenameChars)
    IN  IF f # 0 /\ g >= f /\ FilenameClosed(s, g)
        THEN [matched |-> TRUE, start |-> i, filename |-> SubSeq(s, f, g),
              end |-> g + 2]
        ELSE NoMatch

\* The next match of input_include_pattern.sub at or after `from`.
RECURSIVE FindInclude(_, _)
FindInclude(s, from) ==
    IF from > Len(s) THEN NoMatch
    ELSE IF s[from] # "\\" THEN FindInclude(s, from + 1)
    ELSE LET m == IncludeMatchAt(s, from)
         IN  IF m.matched THEN m ELSE FindInclude(s, from + 1)

DotTex == <<".", "t", "e", "x">>

EndsWith(s, suffix) ==
    /\ Len(s) >= Len(suffix)
    /\ SubSeq(s, Len(s) - Len(suffix) + 1, Len(s)) = suffix

\* _sub_line: f"{fname}.tex" if not fname.endswith(".tex") else fname
FullFname(fname) == IF EndsWith(fname, DotTex) THEN fname ELSE fname \o DotTex

\* Path.is_file()
IsFile(path) == path \in DOMAIN project

\* read_tex_file up to process_inputs: remove_comments, then
\* remove_trailing_whitespace.
Cleaned(text) == RemoveTrailingWhitespace(RemoveComments(text))

\* One read_tex_file call inside process_inputs: the text being substituted,
\* where re.sub searches next, and the output built so far.
Frame(path, text) == [path |-> path, text |-> text, pos |-> 1, out |-> <<>>]

Top == stack[Len(stack)]

TopMatch == FindInclude(Top.text, Top.pos)

\* The caller resumes after the match, with the text before it copied out.
Advanced(frame, m) ==
    [frame EXCEPT !.out = frame.out \o SubSeq(frame.text, frame.pos, m.start - 1),
                  !.pos = m.end]

\* _sub_line calls read_tex_file for the matched file name.
ReadInclude ==
    /\ rstate = "running"
    /\ Len(stack) < MaxDepth
    /\ LET m == TopMatch IN
       /\ m.matched
       /\ IsFile(FullFname(m.filename))
       /\ stack' = Append([stack EXCEPT ![Len(stack)] = Advanced(Top, m)],
                          Frame(FullFname(m.filename),
                                Cleaned(project[FullFname(m.filename)])))
    /\ UNCHANGED <<project, rstate, flattened, pass, first>>

\* Mutant of ReadNotAFile: the missing include is replaced by empty text and
\* the substitution goes on.
ReadSkipMissing ==
    /\ rstate = "running"
    /\ LET m == TopMatch IN
       /\ m.matched
       /\ ~IsFile(FullFname(m.filename))
       /\ stack' = [stack EXCEPT ![Len(stack)] = Advanced(Top, m)]
    /\ UNCHANGED <<project, rstate, flattened, pass, first>>

\* read_tex_file raises ValueError: the matched file is not a file.  The
\* error is not handled anywhere and ends the outermost call.
ReadNotAFile ==
    /\ rstate = "running"
    /\ LET m == TopMatch IN m.matched /\ ~IsFile(FullFname(m.filename))
    /\ rstate' = "not_a_file"
    /\ stack' = <<>>
    /\ UNCHANGED <<project, flattened, pass, first>>

\* The nesting reaches the interpreter's recursion limit: RecursionError.
ReadRecursionLimit ==
    /\ rstate = "running"
    /\ Len(stack) >= MaxDepth
    /\ LET m == TopMatch IN m.matched /\ IsFile(FullFname(m.filename))
    /\ rstate' = "recursion_error"
    /\ stack' = <<>>
    /\ UNCHANGED <<project, flattened, pass, first>>

\* re.sub finds no further match: process_inputs and read_tex_file return.
Returned(frame) == frame.out \o From(frame.text, frame.pos)

\* ... to _sub_line of the including file, which substitutes the text.
ReadReturnToCaller ==
    /\ rstate = "running"
    /\ Len(stack) > 1
    /\ ~TopMatch.matched
    /\ stack' = [SubSeq(stack, 1, Len(stack) - 1) EXCEPT
                    ![Len(stack) - 1].out = @ \o Returned(Top)]
    /\ UNCHANGED <<project, rstate, flattened, pass, first>>

\* ... to the caller of the outermost read_tex_file.
ReadReturnFlattened ==
    /\ rstate = "running"
    /\ Len(stack) = 1
    /\ ~TopMatch.matched
    /\ flattened' = Returned(Top)
    /\ rstate' = "done"
    /\ stack' = <<>>
    /\ UNCHANGED <<project, pass, first>>

OutputFile == <<"o", "u", "t">>

\* The returned text is written to a file of the project directory and
\* read_tex_file is called on it.
ReadOwnOutput ==
    /\ rstate = "done"
    /\ pass = 1
    /\ pass' = 2
    /\ first' = flattened
    /\ flattened' = <<>>
    /\ rstate' = "running"
    /\ stack' = <<Frame(OutputFile, Cleaned(flattened))>>
    /\ UNCHANGED project

\* The files of the model's projects.
FileA == <<"a", ".", "t", "e", "x">>
FileB == <<"b", ".", "t", "e", "x">>
FileC == <<"c", ".", "t", "e", "x">>

Backslash == <<"\\">>

\* The root file a.tex: the four forms of the command, with and without
\* the .tex suffix, a reference to itself and one to d.tex, which no
\* project holds.
RootPieces ==
    {<<"x">>, <<" ">>, <<"\n">>, <<"%">>,
     Backslash \o Input \o <<"{", "b", "}">>,
     Backslash \o Input \o <<" ", "b">>,
     Backslash \o Include \o <<"{", "b">> \o DotTex \o <<"}">>,
     Backslash \o Include \o <<" ", "b">> \o DotTex,
     Backslash \o Input \o <<"{", "a", "}">>,
     Backslash \o Input \o <<"{", "d", "}">>}

\* The included file b.tex.
IncludedPieces ==
    {<<>>, <<"x">>, <<"\n", "x">>, <<"x", " ", "%", "x", "\n">>,
     Backslash \o Input \o <<"{", "a", "}">>,
     Backslash \o Input \o <<"{", "c", "}">>,
     Backslash \o Include \o <<" ", "d", "\n">>}

IncludedTexts == IncludedPieces

\* c.tex: a comment and trailing whitespace of its own.
TextC == <<"y", " ", "%", "z", "\n">>

ReadInit ==
    /\ AuxIdle
    /\ ParseIdle
    /\ NormIdle
    /\ MacroIdle
    /\ DocIdle
    /\ \E k \in 0..MaxRootPieces : \E ps \in [1..k -> RootPieces] :
          \E tb \in IncludedTexts :
             project = (FileA :> Flatten(ps)) @@ (FileB :> tb) @@ (FileC :> TextC)
    /\ stack = <<Frame(FileA, Cleaned(project[FileA]))>>
    /\ rstate = "running"
    /\ flattened = <<>>
    /\ pass = 1
    /\ first = <<>>

ReadNext ==
    \/ ReadInclude /\ UNCHANGED <<parseVars, normVars, macroVars, docVars, auxVars>>
    \/ ReadNotAFile /\ UNCHANGED <<parseVars, normVars, macroVars, docVars, auxVars>>
    \/ ReadRecursionLimit /\ UNCHANGED <<parseVars, normVars, macroVars, docVars, auxVars>>
    \/ ReadReturnToCaller /\ UNCHANGED <<parseVars, normVars, macroVars, docVars, auxVars>>
    \/ ReadReturnFlattened /\ UNCHANGED <<parseVars, normVars, macroVars, docVars, auxVars>>
    \/ ReadOwnOutput /\ UNCHANGED <<parseVars, normVars, macroVars, docVars, auxVars>>

SpecRead == ReadInit /\ [][ReadNext]_vars

-----------------------------------------------------------------------------
(* Claims about read_tex_file, checked under SpecRead *)

\* C6: read_tex_file terminates on every finite project, also when a file
\* references itself directly or through other files: no file is being read
\* inside its own read_tex_file call, and the nesting never reaches the
\* recursion limit.
C6_ReadTerminates ==
    /\ rstate # "recursion_error"
    /\ \A i, j \in 1..Len(stack) : i # j => stack[i].path # stack[j].path

\* C7: the normaliser applied to its own output returns that output
\* unchanged.
C7_NormalizeIdempotent ==
    (rstate = "done" /\ pass = 2) => flattened = first

\* An invocation of \input or \include in one of the four forms: the command
\* name, then {name or blank-separated name.
FormAt(s, i) ==
    /\ At(s, i) = "\\"
    /\ \E name \in {Input, Include} :
          /\ SubSeq(s, i + 1, i + Len(name)) = name
          /\ At(s, i + Len(name) + 1) \in {"{", " "}
          /\ At(s, i + Len(name) + 2) \in FilenameChars

Occurs(part, s) ==
    \E i \in 1..(Len(s) - Len(part) + 1) : SubSeq(s, i, i + Len(part) - 1) = part

\* C10: each form of \input and \include, with or without the .tex suffix,
\* is replaced by the normalised content of the file: the text read_tex_file
\* returns holds no invocation any more, and holds the normalised content of
\* b.tex when the root file invokes it.
C10_EveryFormInlined ==
    (rstate = "done" /\ pass = 1) =>
    /\ \A i \in 1..Len(flattened) : ~FormAt(flattened, i)
    /\ LET root == Cleaned(project[FileA])
           b    == Cleaned(project[FileB])
       IN  ((\E i \in 1..Len(root) : FormAt(root, i)) /\ "\\" \notin Chars(b))
              => Occurs(b, flattened)

\* The files named by the matches re.sub finds in s, searching from `from`.
RECURSIVE Referenced(_, _)
Referenced(s, from) ==
    LET m == FindInclude(s, from)
    IN  IF m.matched THEN {FullFname(m.filename)} \cup Referenced(s, m.end)
        ELSE {}

\* The files that `paths` reference, directly or through n further files.
RECURSIVE ReferencedThrough(_, _)
ReferencedThrough(paths, n) ==
    IF n = 0 THEN paths
    ELSE ReferencedThrough(
            paths \cup UNION {Referenced(Cleaned(project[p]), 1) :
                                 p \in paths \cap DOMAIN project}, n - 1)

\* Every file a read of the root file a.tex comes to, at any nesting depth.
ReferencedFiles == ReferencedThrough({FileA}, Cardinality(DOMAIN project))

-----------------------------------------------------------------------------
(* extract.py: DEF_PATTERN, get_def_macros, get_newcommand_macros, get_macros *)

\* [a-zA-Z] over the model's alphabet.
AsciiLetters == Letters \cup {"f", "m", "o", "w"}

Def == <<"d", "e", "f">>
Newcommand == <<"n", "e", "w", "c", "o", "m", "m", "a", "n", "d">>

\* A dict in insertion order: a sequence of (name, content) pairs with
\* unique names.
MacroEntry(name, content) == [name |-> name, content |-> content]

Keys(table) == {table[i].name : i \in 1..Len(table)}

\* table[name], for a name that is a key.
Lookup(table, name) ==
    table[CHOOSE i \in 1..Len(table) : table[i].name = name].content

\* table[name] = content: a new key goes last, an existing key keeps its
\* place and takes the new content.
PutMacro(table, name, content) ==
    IF name \in Keys(table)
    THEN [i \in 1..Len(table) |->
            IF table[i].name = name THEN MacroEntry(name, content) ELSE table[i]]
    ELSE Append(table, MacroEntry(name, content))

\* dict.update: the entries of `other`, in order, assigned into `table`.
RECURSIVE UpdateMacros(_, _)
UpdateMacros(table, other) ==
    IF other = <<>> THEN table
    ELSE UpdateMacros(PutMacro(table, Head(other).name, Head(other).content),
                      Tail(other))

\* s[i:].startswith(part)
HasAt(s, i, part) ==
    /\ i + Len(part) - 1 <= Len(s)
    /\ SubSeq(s, i, i + Len(part) - 1) = part

\* The first position at or after i that holds a character of `stops`;
\* 0 when there is none.
FirstOf(s, i, stops) ==
    LET hits == {k \in i..Len(s) : s[k] \in stops}
    IN  IF hits = {} THEN 0 ELSE Min(hits)

\* Mutant of DefMatchAt: the content may run over line ends (re.DOTALL).
DefMatchAtDotAll(s, i) ==
    LET j == RunEnd(s, i + 1 + Len(Def), WhitespaceChars) + 1
        k == RunEnd(s, j + 1, AsciiLetters)
        l == RunEnd(s, k + 1, WhitespaceChars) + 1
        e == FirstOf(s, l + 1, {"}"})
    IN  IF /\ At(s, i) = "\\"
           /\ HasAt(s, i + 1, Def)
           /\ At(s, j) = "\\"
           /\ At(s, l) = "{"
           /\ e # 0
        THEN [matched |-> TRUE, start |-> i, name |-> SubSeq(s, j, k),
              content |-> SubSeq(s, l + 1, e - 1), end |-> e + 1]
        ELSE NoMatch

\* DEF_PATTERN at position i: \\def, \s*, the name (a backslash and the
\* letters after it: the lazy [a-zA-Z]*? must reach a character that \s*{
\* accepts), \s*, {, the content up to the first } of the line (.*? does
\* not match a newline), }.
DefMatchAt(s, i) ==
    LET j == RunEnd(s, i + 1 + Len(Def), WhitespaceChars) + 1
        k == RunEnd(s, j + 1, AsciiLetters)
        l == RunEnd(s, k + 1, WhitespaceChars) + 1
        e == FirstOf(s, l + 1, {"}", "\n"})
    IN  IF /\ At(s, i) = "\\"
           /\ HasAt(s, i + 1, Def)
           /\ At(s, j) = "\\"
           /\ At(s, l) = "{"
           /\ e # 0
           /\ s[e] = "}"
        THEN [matched |-> TRUE, start |-> i, name |-> SubSeq(s, j, k),
              content |-> SubSeq(s, l + 1, e - 1), end |-> e + 1]
        ELSE NoMatch

\* DEF_PATTERN.finditer from position i on: the matches, in order.
RECURSIVE DefMatches(_, _)
DefMatches(s, i) ==
    IF i > Len(s) THEN <<>>
    ELSE LET m == DefMatchAt(s, i)
         IN  IF m.matched THEN <<m>> \o DefMatches(s, m.end)
             ELSE DefMatches(s, i + 1)

\* macros[match.group("name")] = match.group("content"), match by match.
RECURSIVE AssignMatches(_, _)
AssignMatches(table, ms) ==
    IF ms = <<>> THEN table
    ELSE AssignMatches(PutMacro(table, Head(ms).name, Head(ms).content), Tail(ms))

\* get_def_macros
GetDefMacros(s) == [kind |-> "ok", table |-> AssignMatches(<<>>, DefMatches(s, 1))]

\* The LaTeXCommand of get_newcommand_macros: two required {} elements.
NewcommandCommand == LaTeXCommand(Newcommand, NewCommand.elements)

\* The loop of get_newcommand_macros over command.parse(tex_source), from
\* search position `from` on.  _parse_command may raise RuntimeError, and
\* macro["name"] / macro["content"] raise KeyError when the whitespace
\* fallback returned a single element.
RECURSIVE NewcommandMacrosFrom(_, _, _)
NewcommandMacrosFrom(s, from, table) ==
    LET m == FindCommand(s, from, Newcommand)
    IN  IF m = 0 THEN [kind |-> "ok", table |-> table]
        ELSE LET r == ParseCommand(s, NewcommandCommand, m)
             IN  IF r.kind = "error" THEN [kind |-> "RuntimeError"]
                 ELSE IF ~ContainsName(r, "content") \/ ~ContainsName(r, "name")
                 THEN [kind |-> "KeyError"]
                 ELSE NewcommandMacrosFrom(s, CommandMatchEnd(m, Newcommand),
                         PutMacro(table, GetElementByName(r, "name").content,
                                  GetElementByName(r, "content").content))

\* get_newcommand_macros
GetNewcommandMacros(s) == NewcommandMacrosFrom(s, 1, <<>>)

\* Mutant of GetMacros: the \def entries are assigned last.
GetMacrosDefLast(s) ==
    LET d == GetDefMacros(s)
        n == GetNewcommandMacros(s)
    IN  IF n.kind # "ok" THEN n
        ELSE [kind |-> "ok", table |-> UpdateMacros(n.table, d.table)]

\* get_macros: the \def entries, updated with the \newcommand entries.
GetMacros(s) ==
    LET d == GetDefMacros(s)
        n == GetNewcommandMacros(s)
    IN  IF n.kind # "ok" THEN n
        ELSE [kind |-> "ok", table |-> UpdateMacros(d.table, n.table)]

-----------------------------------------------------------------------------
(* normalize.py: replace_macros *)

\* re.sub(re.escape(macro_name) + r"\\?", content, s) from position i on.
\* The pattern of an empty name matches at every position, also right after
\* a match, and at the end of the text.
RECURSIVE ReplaceMacroFrom(_, _, _, _)
ReplaceMacroFrom(s, i, name, content) ==
    IF i > Len(s) THEN (IF name = <<>> THEN content ELSE <<>>)
    ELSE IF HasAt(s, i, name)
    THEN LET e == i + Len(name)
         IN  IF At(s, e) = "\\"
             THEN content \o ReplaceMacroFrom(s, e + 1, name, content)
             ELSE IF name = <<>>
             THEN content \o <<s[i]>> \o ReplaceMacroFrom(s, i + 1, name, content)
             ELSE content \o ReplaceMacroFrom(s, e, name, content)
    ELSE <<s[i]>> \o ReplaceMacroFrom(s, i + 1, name, content)

\* replace_macros: one re.sub per entry, in dict order, each on the result
\* of the one before.
RECURSIVE ReplaceMacros(_, _)
ReplaceMacros(s, table) ==
    IF table = <<>> THEN s
    ELSE ReplaceMacros(ReplaceMacroFrom(s, 1, Head(table).name, Head(table).content),
                       Tail(table))

-----------------------------------------------------------------------------
(* The macro functions' inputs and calls *)

MacroA == <<"\\", "a">>
MacroB == <<"\\", "b">>
DefPiece == Backslash \o Def
NewcommandPiece == Backslash \o Newcommand

\* What may follow \def or \newcommand, piece by piece.
DeclBodyPieces == {MacroA, <<"{">>, <<"}">>, <<"x">>, <<" ">>, <<"\n">>}

\* Whole declarations in the two styles, with and without spaces, with a
\* multi-line content with nested braces, without braces around the name,
\* left open, without content; uses of the macros, followed by a backslash or not.
DeclPieces ==
    {DefPiece \o MacroA \o <<"{", "x", "}">>,
     DefPiece \o <<" ">> \o MacroB \o <<" ", "{", "y", "}">>,
     DefPiece \o MacroA \o <<"{", "y", "}">>,
     DefPiece \o MacroB \o <<"{">>,
     NewcommandPiece \o <<"{">> \o MacroA \o <<"}", "{", "z", "}">>,
     NewcommandPiece \o <<" ", "{", " ">> \o MacroB \o <<" ", "}", " ", "{", "y", "}">>,
     NewcommandPiece \o <<"{">> \o MacroA \o <<"}", "{", "x", "\n", "{", "y", "}", "}">>,
     NewcommandPiece \o <<"{">> \o MacroB \o <<"}", "{">> \o MacroA \o <<"}">>,
     NewcommandPiece \o MacroA \o <<"{", "z", "}">>,
     NewcommandPiece \o <<"{">> \o MacroB \o <<"}">>,
     MacroA, MacroB, MacroA \o Backslash \o <<" ">>, Backslash, <<"\n">>}

\* Macro tables passed to replace_macros by a caller.
Tables ==
    {<<MacroEntry(MacroA, <<"x">>)>>,
     <<MacroEntry(MacroA, <<"x", " ", "y">>)>>,
     <<MacroEntry(MacroA, <<>>)>>,
     <<MacroEntry(MacroB, <<"x">>), MacroEntry(MacroA, MacroB)>>}

MacroInit ==
    /\ AuxIdle
    /\ ParseIdle
    /\ NormIdle
    /\ ReadIdle
    /\ DocIdle
    /\ \/ \E k \in 0..MaxDeclBody : \E ps \in [1..k -> DeclBodyPieces] :
             msource = DefPiece \o Flatten(ps)
       \/ \E k \in 0..MaxDeclBody : \E ps \in [1..k -> DeclBodyPieces] :
             msource = NewcommandPiece \o Flatten(ps)
       \/ \E k \in 0..MaxDecls : \E ps \in [1..k -> DeclPieces] :
             msource = Flatten(ps)
    /\ macros = <<>>
    /\ mout = <<>>
    /\ mstate = "source"

\* get_def_macros(tex_source)
CallGetDefMacros ==
    /\ mstate = "source"
    /\ macros' = GetDefMacros(msource).table
    /\ mstate' = "get_def_macros"
    /\ UNCHANGED <<msource, mout>>

\* get_newcommand_macros(tex_source) returns.
CallGetNewcommandMacros ==
    /\ mstate = "source"
    /\ LET r == GetNewcommandMacros(msource)
       IN  /\ r.kind = "ok"
           /\ macros' = r.table
    /\ mstate' = "get_newcommand_macros"
    /\ UNCHANGED <<msource, mout>>

\* get_macros(tex_source) returns.
CallGetMacros ==
    /\ mstate = "source"
    /\ LET r == GetMacros(msource)
       IN  /\ r.kind = "ok"
           /\ macros' = r.table
    /\ mstate' = "get_macros"
    /\ UNCHANGED <<msource, mout>>

\* get_newcommand_macros, and get_macros through it, raise RuntimeError or
\* KeyError.
RaiseGetMacros ==
    /\ mstate = "source"
    /\ LET r == GetNewcommandMacros(msource)
       IN  /\ r.kind # "ok"
           /\ mstate' = r.kind
    /\ UNCHANGED <<msource, macros, mout>>

MacroNext ==
    \/ CallGetDefMacros /\ UNCHANGED <<parseVars, normVars, readVars, docVars, auxVars>>
    \/ CallGetNewcommandMacros /\ UNCHANGED <<parseVars, normVars, readVars, docVars, auxVars>>
    \/ CallGetMacros /\ UNCHANGED <<parseVars, normVars, readVars, docVars, auxVars>>
    \/ RaiseGetMacros /\ UNCHANGED <<parseVars, normVars, readVars, docVars, auxVars>>

SpecMacro == MacroInit /\ [][MacroNext]_vars

-----------------------------------------------------------------------------
(* replace_macros and Parser.normalize_source: inputs and calls *)

\* Uses of the macros \a and \b in running text.
UsePieces == {MacroA, MacroB, Backslash, <<" ">>, <<"x">>}

ReplaceInit ==
    /\ AuxIdle
    /\ ParseIdle
    /\ NormIdle
    /\ ReadIdle
    /\ DocIdle
    /\ \/ \E k \in 0..MaxUses : \E ps \in [1..k -> UsePieces] :
             msource = Flatten(ps)
       \/ \E k \in 0..MaxDecls : \E ps \in [1..k -> DeclPieces] :
             msource = Flatten(ps)
    /\ macros = <<>>
    /\ mout = <<>>
    /\ mstate = "source"

\* replace_macros(tex_source, macros) with a table of the caller.
CallReplaceMacros ==
    /\ mstate = "source"
    /\ \E table \in Tables :
          /\ macros' = table
          /\ mout' = ReplaceMacros(msource, table)
    /\ mstate' = "replace_macros"
    /\ UNCHANGED msource

\* Parser.normalize_source: get_macros, then replace_macros with the table
\* it scraped from the same source.
NormalizeSource ==
    /\ mstate = "source"
    /\ LET r == GetMacros(msource)
       IN  /\ r.kind = "ok"
           /\ macros' = r.table
           /\ mout' = ReplaceMacros(msource, r.table)
    /\ mstate' = "normalize_source"
    /\ UNCHANGED msource

\* Parser.normalize_source: get_macros raises.
RaiseNormalizeSource ==
    /\ mstate = "source"
    /\ LET r == GetMacros(msource)
       IN  /\ r.kind # "ok"
           /\ mstate' = r.kind
    /\ UNCHANGED <<msource, macros, mout>>

ReplaceNext ==
    \/ CallReplaceMacros /\ UNCHANGED <<parseVars, normVars, readVars, docVars, auxVars>>
    \/ NormalizeSource /\ UNCHANGED <<parseVars, normVars, readVars, docVars, auxVars>>
    \/ RaiseNormalizeSource /\ UNCHANGED <<parseVars, normVars, readVars, docVars, auxVars>>

SpecReplace == ReplaceInit /\ [][ReplaceNext]_vars

-----------------------------------------------------------------------------
(* Claims about the macro scrapers, checked under SpecMacro *)

\* A declaration \def\name{content} that occupies one line starts at i:
\* spaces or tabs may stand between \def, the name and the opening brace,
\* and the content holds no newline and no brace.
DefDeclarationAt(s, i) ==
    LET j == RunEnd(s, i + Len(DefPiece), Blanks) + 1
        k == RunEnd(s, j + 1, AsciiLetters)
        l == RunEnd(s, k + 1, Blanks) + 1
        e == FirstOf(s, l + 1, {"{", "}", "\n"})
    IN  IF /\ HasAt(s, i, DefPiece)
           /\ At(s, j) = "\\"
           /\ k > j
           /\ At(s, l) = "{"
           /\ e # 0
           /\ s[e] = "}"
        THEN [matched |-> TRUE, name |-> SubSeq(s, j, k),
              content |-> SubSeq(s, l + 1, e - 1)]
        ELSE NoMatch

\* The macro name that follows a \def at j, <<>> when no \def with a name
\* starts there.
DefinedNameAt(s, j) ==
    LET n == RunEnd(s, j + Len(DefPiece), WhitespaceChars) + 1
    IN  IF HasAt(s, j, DefPiece) /\ At(s, n) = "\\"
        THEN SubSeq(s, n, RunEnd(s, n + 1, AsciiLetters))
        ELSE <<>>

\* Position i lies inside the braces that an earlier \def of the same line
\* has opened and not closed.
InsideOpenDef(s, i) ==
    \E j \in 1..(i - 1) :
        /\ DefinedNameAt(s, j) # <<>>
        /\ LET n == RunEnd(s, j + Len(DefPiece), WhitespaceChars) + 1
               l == RunEnd(s, RunEnd(s, n + 1, AsciiLetters) + 1, WhitespaceChars) + 1
           IN  /\ l < i
               /\ At(s, l) = "{"
               /\ \A k \in (l + 1)..(i - 1) : s[k] \notin {"}", "\n"}

MatchingBrace(s, l) ==
    LET opened(e) == Cardinality({k \in l..e : s[k] = "{"})
        closed(e) == Cardinality({k \in l..e : s[k] = "}"})
        ends == {e \in (l + 1)..Len(s) : opened(e) = closed(e)}
    IN  IF ends = {} THEN 0 ELSE Min(ends)

\* The text without its leading and trailing whitespace.
Trimmed(s) ==
    LET inner == {i \in 1..Len(s) : s[i] \notin WhitespaceChars}
    IN  IF inner = {} THEN <<>>
        ELSE [k \in 1..(Max(inner) - Min(inner) + 1) |-> s[Min(inner) + k - 1]]

\* A declaration \newcommand{\name}{content} starts at i: blanks may stand
\* between \newcommand and the two brace groups and around the name; the
\* content is a balanced brace group, of any number of lines.
NewcommandDeclarationAt(s, i) ==
    LET a == RunEnd(s, i + Len(NewcommandPiece), Blanks) + 1
        j == RunEnd(s, a + 1, Blanks) + 1
        k == RunEnd(s, j + 1, AsciiLetters)
        b == RunEnd(s, k + 1, Blanks) + 1
        l == RunEnd(s, b + 1, Blanks) + 1
        e == IF At(s, l) = "{" THEN MatchingBrace(s, l) ELSE 0
    IN  IF /\ HasAt(s, i, NewcommandPiece)
           /\ At(s, a) = "{"
           /\ At(s, j) = "\\"
           /\ k > j
           /\ At(s, b) = "}"
           /\ e # 0
        THEN [matched |-> TRUE, name |-> SubSeq(s, j, k),
              content |-> SubSeq(s, l + 1, e - 1)]
        ELSE NoMatch

\* The trimmed text of the first brace group that follows a \newcommand at
\* j on its line; <<"?">> when no \newcommand with such a group starts there.
NewcommandNameAt(s, j) ==
    LET l == FirstOf(s, j, {"{", "\n"})
        e == IF l # 0 /\ s[l] = "{" THEN MatchingBrace(s, l) ELSE 0
    IN  IF HasAt(s, j, NewcommandPiece) /\ e # 0
        THEN Trimmed(SubSeq(s, l + 1, e - 1))
        ELSE <<"?">>

UnbracedDeclarationAt(s, i) ==
    LET j == i + Len(NewcommandPiece)
        k == RunEnd(s, j + 1, AsciiLetters)
        e == IF At(s, k + 1) = "{" THEN MatchingBrace(s, k + 1) ELSE 0
    IN  IF /\ HasAt(s, i, NewcommandPiece)
           /\ At(s, j) = "\\"
           /\ k > j
           /\ e # 0
        THEN [matched |-> TRUE, name |-> SubSeq(s, j, k),
              content |-> SubSeq(s, k + 2, e - 1)]
        ELSE NoMatch

\* C14: get_newcommand_macros, and get_macros with it, recognise the
\* declaration without braces around the name: a source that holds
\* \newcommand\name{content} yields a table in which \name is a key, with
\* the content as its value when no later declaration follows it.
C14_UnbracedNameRecognised ==
    mstate \in {"get_newcommand_macros", "get_macros"} =>
    \A i \in 1..Len(msource) :
        LET d == UnbracedDeclarationAt(msource, i)
        IN  d.matched =>
            /\ d.name \in Keys(macros)
            /\ (\A j \in (i + 1)..Len(msource) :
                    ~HasAt(msource, j, NewcommandPiece) /\ ~HasAt(msource, j, DefPiece))
                  => Lookup(macros, d.name) = Trimmed(d.content)

\* The \newcommand invocations of s, and what each declares: the position
\* of the last invocation that declares `name`.
LastNewcommandOf(s, name) ==
    Max({i \in 1..Len(s) :
            /\ CommandMatchAt(s, i, Newcommand)
            /\ GetElementByName(ParseCommand(s, NewcommandCommand, i), "name").content
                  = name})

\* The index of the last DEF_PATTERN match that defines `name`.
LastDefOf(ms, name) == Max({i \in 1..Len(ms) : ms[i].name = name})

\* C15: get_macros returns the union of the \def and the \newcommand
\* macros, each name once; among the declarations of a name in one style
\* the last of the document gives the value, and a \newcommand declaration
\* of a name overrides its \def declarations wherever they stand.
C15_UnionNewcommandOverridesDef ==
    mstate = "get_macros" =>
    LET d  == GetDefMacros(msource).table
        n  == GetNewcommandMacros(msource).table
        ms == DefMatches(msource, 1)
    IN  /\ Keys(macros) = Keys(d) \cup Keys(n)
        /\ \A i, j \in 1..Len(macros) : macros[i].name = macros[j].name => i = j
        /\ \A name \in Keys(n) :
              Lookup(macros, name) =
                 GetElementByName(
                    ParseCommand(msource, NewcommandCommand,
                                 LastNewcommandOf(msource, name)), "content").content
        /\ \A name \in Keys(d) \ Keys(n) :
              Lookup(macros, name) = ms[LastDefOf(ms, name)].content

\* \newcommand{\a}{z}, then \def\a{x} and \def\a{y}: the \newcommand comes
\* first and still gives the value.
C15_Witness ==
    /\ mstate = "get_macros"
    /\ msource = NewcommandPiece \o <<"{">> \o MacroA \o <<"}", "{", "z", "}">>
                    \o DefPiece \o MacroA \o <<"{", "x", "}">>
                    \o DefPiece \o MacroA \o <<"{", "y", "}">>
    /\ macros = <<MacroEntry(MacroA, <<"z">>)>>

-----------------------------------------------------------------------------
(* Claims about replace_macros, checked under SpecReplace *)

\* C16: after replace_macros(source, macros), no name that is a key of the
\* table occurs anywhere in the returned text.
C16_NoMacroNameLeft ==
    mstate \in {"replace_macros", "normalize_source"} =>
    \A name \in Keys(macros) : ~Occurs(name, mout)

\* The backslash at e is an escaped-space token: a space follows it.
EscapedSpaceAt(s, e) == At(s, e) = "\\" /\ At(s, e + 1) = " "

\* The replacement the claim describes, for one macro with a non-empty
\* name: every occurrence of the name becomes the content, and a backslash
\* right after the occurrence goes exactly when it is an escaped space.
RECURSIVE EscapedSpaceReplaceFrom(_, _, _, _)
EscapedSpaceReplaceFrom(s, i, name, content) ==
    IF i > Len(s) THEN <<>>
    ELSE IF HasAt(s, i, name)
    THEN LET e == i + Len(name)
         IN  content \o EscapedSpaceReplaceFrom(
                           s, IF EscapedSpaceAt(s, e) THEN e + 1 ELSE e, name, content)
    ELSE <<s[i]>> \o EscapedSpaceReplaceFrom(s, i + 1, name, content)

RECURSIVE EscapedSpaceReplace(_, _)
EscapedSpaceReplace(s, table) ==
    IF table = <<>> THEN s
    ELSE EscapedSpaceReplace(
            EscapedSpaceReplaceFrom(s, 1, Head(table).name, Head(table).content),
            Tail(table))

\* C17: replace_macros removes the backslash that immediately follows a
\* macro occurrence exactly when that backslash is an escaped-space token
\* (a space follows it); any other backslash after the macro stays in
\* place.
C17_OnlyEscapedSpaceRemoved ==
    mstate = "replace_macros" => mout = EscapedSpaceReplace(msource, macros)

-----------------------------------------------------------------------------
(* Parser.__init__ with ArticleParser (ext/parser/_parser.py,
   parsers/article/_parser.py) and LsstLatexDoc (lsstprojectmeta/tex/lsstdoc.py) *)

TitleName == <<"t", "i", "t", "l", "e">>
DateName == <<"d", "a", "t", "e">>
AbstractName == <<"s", "e", "t", "D", "o", "c", "A", "b", "s", "t", "r", "a", "c", "t">>
AuthorName == <<"a", "u", "t", "h", "o", "r">>
DocRefName == <<"s", "e", "t", "D", "o", "c", "R", "e", "f">>

\* \title[short_title]{long_title}
DocTitleCommand == LaTeXCommand(TitleName, TitleCommand.elements)
\* \date{date}
DocDateCommand == LaTeXCommand(DateName, <<Element(0, "{", TRUE, "date")>>)
\* \setDocAbstract{abstract}
DocAbstractCommand == LaTeXCommand(AbstractName, <<Element(0, "{", TRUE, "abstract")>>)
\* \author{authors}
DocAuthorCommand == LaTeXCommand(AuthorName, <<Element(0, "{", TRUE, "authors")>>)
\* \setDocRef{handle}
DocRefCommand == LaTeXCommand(DocRefName, <<Element(0, "{", TRUE, "handle")>>)

\* Python's None.
None == <<"None">>

\* [t for t in command.parse(s)] from search position `from` on: the
\* ParsedCommands, or the error of the first invocation that does not parse.
RECURSIVE ParseAllFrom(_, _, _, _)
ParseAllFrom(s, cmd, from, items) ==
    LET m == FindCommand(s, from, cmd.name)
    IN  IF m = 0 THEN [kind |-> "ok", items |-> items]
        ELSE LET r == ParseCommand(s, cmd, m)
             IN  IF r.kind = "error" THEN [kind |-> "ParseError"]
                 ELSE ParseAllFrom(s, cmd, CommandMatchEnd(m, cmd.name),
                                   Append(items, r))

ParseAll(s, cmd) == ParseAllFrom(s, cmd, 1, <<>>)

\* next(command.parse(s)): the first invocation parsed, its error, or
\* StopIteration when there is no invocation.
ParseFirst(s, cmd) ==
    LET m == FindCommand(s, 1, cmd.name)
    IN  IF m = 0 THEN [kind |-> "StopIteration"]
        ELSE LET r == ParseCommand(s, cmd, m)
             IN  IF r.kind = "error" THEN [kind |-> "ParseError"]
                 ELSE [kind |-> "ok", parsed |-> r]

\* titles[-1] / dates[-1]
LastOf(items) == items[Len(items)]

\* titles[-1]["long_title"] / dates[-1]["date"] on the list `all` of parsed
\* invocations: RuntimeError from the command parser, or raised because
\* the list is empty.
LastField(all, element) ==
    IF all.kind # "ok" THEN [kind |-> "RuntimeError", parser |-> TRUE]
    ELSE IF Len(all.items) = 0 THEN [kind |-> "RuntimeError", parser |-> FALSE]
    ELSE IF ~ContainsName(LastOf(all.items), element)
    THEN [kind |-> "KeyError", parser |-> FALSE]
    ELSE [kind |-> "ok",
          value |-> GetElementByName(LastOf(all.items), element).content]

\* ArticleParser._parse_title / _parse_date
ArticleParseField(s, cmd, element) == LastField(ParseAll(s, cmd), element)

Digits == {"0", "1", "2", "3", "4", "5", "6", "7", "8", "9"}

\* DocumentMetadata's date_modified: datetime.date accepts YYYY-MM-DD.
IsIsoDate(text) ==
    /\ Len(text) = 10
    /\ \A i \in {1, 2, 3, 4, 6, 7, 9, 10} : text[i] \in Digits
    /\ text[5] = "-"
    /\ text[8] = "-"

\* The body of ArticleParser.extract_metadata on the outcomes of
\* _parse_date and _parse_title: a RuntimeError of _parse_date is passed
\* over, one of _parse_title is not; DocumentMetadata(**metadata) validates
\* date_modified.
DocumentMetadata(date, title) ==
    IF date.kind \notin {"ok", "RuntimeError"}
    THEN [raised |-> [kind |-> date.kind, field |-> "date_modified",
                      parser |-> date.parser],
          metadata |-> <<>>]
    ELSE IF title.kind # "ok"
    THEN [raised |-> [kind |-> title.kind, field |-> "title",
                      parser |-> title.parser],
          metadata |-> <<>>]
    ELSE IF date.kind = "ok" /\ ~IsIsoDate(date.value)
    THEN [raised |-> [kind |-> "ValidationError", field |-> "date_modified",
                      parser |-> FALSE],
          metadata |-> <<>>]
    ELSE [raised |-> NoError,
          metadata |-> ("title" :> title.value)
                       @@ (IF date.kind = "ok"
                           THEN ("date_modified" :> date.value) ELSE <<>>)]

\* ArticleParser.extract_metadata with the default settings (no canonical
\* URL, no metadata overrides).
ArticleExtractMetadata(s) ==
    DocumentMetadata(ArticleParseField(s, DocDateCommand, "date"),
                     ArticleParseField(s, DocTitleCommand, "long_title"))

\* str.replace(old, new) for single characters.
ReplaceChar(s, old, new) ==
    [i \in 1..Len(s) |-> IF s[i] = old THEN new ELSE s[i]]

\* str.split(sep): the pieces between the occurrences of sep, left to right.
RECURSIVE SplitOn(_, _)
SplitOn(s, sep) ==
    LET hits == {i \in 1..(Len(s) - Len(sep) + 1) : HasAt(s, i, sep)}
    IN  IF hits = {} THEN <<s>>
        ELSE <<SubSeq(s, 1, Min(hits) - 1)>>
                \o SplitOn(From(s, Min(hits) + Len(sep)), sep)

\* The non-empty pieces of `parts`, left as they are.
RECURSIVE NonEmptyUnstripped(_)
NonEmptyUnstripped(parts) ==
    IF parts = <<>> THEN <<>>
    ELSE (IF Head(parts) = <<>> THEN <<>> ELSE <<Head(parts)>>)
            \o NonEmptyUnstripped(Tail(parts))

\* The stripped, non-empty pieces of `parts`.
RECURSIVE StrippedNonEmpty(_)
StrippedNonEmpty(parts) ==
    IF parts = <<>> THEN <<>>
    ELSE (IF Strip(Head(parts)) = <<>> THEN <<>> ELSE <<Strip(Head(parts))>>)
            \o StrippedNonEmpty(Tail(parts))

\* The loop of _parse_author over content.split(","): each part stripped
\* and split on "and ".
RECURSIVE AuthorsOf(_)
AuthorsOf(parts) ==
    IF parts = <<>> THEN <<>>
    ELSE StrippedNonEmpty(SplitOn(Strip(Head(parts)), <<"a", "n", "d", " ">>))
            \o AuthorsOf(Tail(parts))

LsstRaised(field) ==
    [kind |-> "CommandParserError", field |-> field, parser |-> TRUE]

\* The body of _parse_title on the outcome f of next(command.parse(tex)):
\* StopIteration sets both attributes to None and falls through to
\* parsed["long_title"] with `parsed` unbound.
TitleAttributes(f) ==
    IF f.kind = "StopIteration"
    THEN [raised |-> [kind |-> "UnboundLocalError", field |-> "title",
                      parser |-> FALSE],
          fields |-> ("title" :> None) @@ ("short_title" :> None)]
    ELSE IF f.kind = "ParseError"
    THEN [raised |-> LsstRaised("title"), fields |-> <<>>]
    ELSE IF ~ContainsName(f.parsed, "long_title")
    THEN [raised |-> [kind |-> "KeyError", field |-> "title", parser |-> FALSE],
          fields |-> <<>>]
    ELSE [raised |-> NoError,
          fields |-> ("title" :> GetElementByName(f.parsed, "long_title").content)
                     @@ ("short_title" :>
                           IF ContainsName(f.parsed, "short_title")
                           THEN GetElementByName(f.parsed, "short_title").content
                           ELSE None)]

\* LsstLatexDoc._parse_title
LsstParseTitle(s) == TitleAttributes(ParseFirst(s, DocTitleCommand))

\* The body of _parse_abstract on the outcome f of next(command.parse(tex)).
AbstractAttributes(f) ==
    IF f.kind = "ParseError"
    THEN [raised |-> LsstRaised("abstract"), fields |-> <<>>]
    ELSE IF f.kind = "StopIteration" \/ ~ContainsName(f.parsed, "abstract")
    THEN [raised |-> NoError, fields |-> ("abstract" :> None)]
    ELSE [raised |-> NoError,
          fields |-> ("abstract" :>
                        Strip(GetElementByName(f.parsed, "abstract").content))]

\* LsstLatexDoc._parse_abstract
LsstParseAbstract(s) == AbstractAttributes(ParseFirst(s, DocAbstractCommand))

\* content.replace("\n", " ").replace("~", " ").strip()
CleanAuthors(content) ==
    Strip(ReplaceChar(ReplaceChar(content, "\n", " "), "~", " "))

\* The body of _parse_author on the outcome f of next(command.parse(tex)).
AuthorAttributes(f) ==
    IF f.kind = "ParseError"
    THEN [raised |-> LsstRaised("authors"), fields |-> <<>>]
    ELSE IF f.kind = "StopIteration" \/ ~ContainsName(f.parsed, "authors")
    THEN [raised |-> NoError, fields |-> ("authors" :> <<>>)]
    ELSE [raised |-> NoError,
          fields |-> ("authors" :>
              AuthorsOf(SplitOn(
                  CleanAuthors(GetElementByName(f.parsed, "authors").content),
                  <<",">>)))]

\* LsstLatexDoc._parse_author
LsstParseAuthor(s) == AuthorAttributes(ParseFirst(s, DocAuthorCommand))

\* handle.split("-", 1) as series and serial (ValueError, caught, when the
\* handle has no hyphen).
SeriesSerial(handle, hyphen) ==
    ("handle" :> handle)
    @@ ("series" :> IF hyphen = 0 THEN None ELSE SubSeq(handle, 1, hyphen - 1))
    @@ ("serial" :> IF hyphen = 0 THEN None ELSE From(handle, hyphen + 1))

\* The body of _parse_doc_ref on the outcome f of next(command.parse(tex)).
DocRefAttributes(f) ==
    IF f.kind = "ParseError"
    THEN [raised |-> LsstRaised("handle"), fields |-> <<>>]
    ELSE IF f.kind = "StopIteration"
    THEN [raised |-> NoError,
          fields |-> ("handle" :> None) @@ ("series" :> None) @@ ("serial" :> None)]
    ELSE IF ~ContainsName(f.parsed, "handle")
    THEN [raised |-> [kind |-> "KeyError", field |-> "handle", parser |-> FALSE],
          fields |-> <<>>]
    ELSE [raised |-> NoError,
          fields |-> SeriesSerial(
              GetElementByName(f.parsed, "handle").content,
              FirstOf(GetElementByName(f.parsed, "handle").content, 1, {"-"}))]

\* LsstLatexDoc._parse_doc_ref
LsstParseDocRef(s) == DocRefAttributes(ParseFirst(s, DocRefCommand))

\* Pieces of document sources: invocations of the field commands (well
\* formed and with an unclosed required argument), a macro with a use of
\* it, and a declaration on which get_macros raises.
DocPieces ==
    {Backslash \o TitleName \o <<"{", "A", "}">>,
     Backslash \o TitleName \o <<"[", "s", "]", "{", "B", "}">>,
     Backslash \o TitleName \o <<"{">> \o MacroB \o <<"}">>,
     Backslash \o TitleName \o <<"{">>,
     Backslash \o DateName \o <<"{", "2", "0", "2", "0", "-", "0", "1", "-", "0", "1", "}">>,
     Backslash \o DateName \o <<"{", "x", "}">>,
     Backslash \o DateName \o <<"{">>,
     Backslash \o AbstractName \o <<"{", " ", "x", " ", "}">>,
     Backslash \o AbstractName \o <<"{">>,
     Backslash \o AuthorName \o <<"{", "A", ",", "~", "B", "\n", "a", "n", "d", " ", "C", "}">>,
     Backslash \o AuthorName \o <<"{">>,
     Backslash \o DocRefName \o <<"{", "L", "-", "1", "}">>,
     Backslash \o DocRefName \o <<"{">>,
     DefPiece \o MacroB \o <<"{", "B", "}">>,
     NewcommandPiece \o <<"{">> \o MacroB \o <<"}">>,
     <<"\n">>}

Extractors == {"article", "lsstdoc"}

\* The state after read_tex_file returned the flattened source.
DocInit ==
    /\ AuxIdle
    /\ ParseIdle
    /\ NormIdle
    /\ ReadIdle
    /\ MacroIdle
    /\ \E k \in 0..MaxDocPieces : \E ps \in [1..k -> DocPieces] :
          doc_source = Flatten(ps)
    /\ extractor \in Extractors
    /\ tex_macros = <<>>
    /\ doc_tex = <<>>
    /\ metadata = <<>>
    /\ dstate = "read"
    /\ steps = <<"read_tex_file">>
    /\ doc_raised = NoError

\* get_macros on a source in which the macros have already been replaced.
ScrapeMacrosAfterExpansion ==
    /\ dstate = "read"
    /\ \E r \in {GetMacros(doc_source)} :
          /\ r.kind = "ok"
          /\ \E x \in {GetMacros(ReplaceMacros(doc_source, r.table))} :
                tex_macros' = IF x.kind = "ok" THEN x.table ELSE <<>>
    /\ dstate' = "scraped"
    /\ steps' = Append(steps, "get_macros")
    /\ UNCHANGED <<doc_source, extractor, doc_tex, metadata, doc_raised>>

\* self._tex_macros = get_macros(_tex_source) in Parser.__init__, and
\* tex_macros = get_macros(tex_source) in LsstLatexDoc.read.
ScrapeMacros ==
    /\ dstate = "read"
    /\ \E r \in {GetMacros(doc_source)} :
          /\ r.kind = "ok"
          /\ tex_macros' = r.table
    /\ dstate' = "scraped"
    /\ steps' = Append(steps, "get_macros")
    /\ UNCHANGED <<doc_source, extractor, doc_tex, metadata, doc_raised>>

\* get_macros raises out of the constructor.
RaiseScrapeMacros ==
    /\ dstate = "read"
    /\ \E r \in {GetMacros(doc_source)} :
          /\ r.kind # "ok"
          /\ doc_raised' = [kind |-> r.kind, field |-> "tex_macros",
                            parser |-> r.kind = "RuntimeError"]
    /\ dstate' = "raised"
    /\ steps' = Append(steps, "get_macros")
    /\ UNCHANGED <<doc_source, extractor, tex_macros, doc_tex, metadata>>

\* The table replace_macros is given: Parser.normalize_source scrapes the
\* same source again, LsstLatexDoc.read passes the table it has.
ExpansionTable ==
    IF extractor = "article" THEN GetMacros(doc_source).table ELSE tex_macros

\* self._tex_source = self.normalize_source(_tex_source) in Parser.__init__,
\* and replace_macros(tex_source, tex_macros) in LsstLatexDoc.read.
ExpandMacros ==
    /\ dstate = "scraped"
    /\ doc_tex' = ReplaceMacros(doc_source, ExpansionTable)
    /\ dstate' = "expanded"
    /\ steps' = Append(steps, "replace_macros")
    /\ UNCHANGED <<doc_source, extractor, tex_macros, metadata, doc_raised>>

\* self._metadata = self.extract_metadata() of an ArticleParser.
ExtractMetadata ==
    /\ dstate = "expanded"
    /\ extractor = "article"
    /\ \E r \in {ArticleExtractMetadata(doc_tex)} :
          /\ metadata' = r.metadata
          /\ doc_raised' = r.raised
          /\ dstate' = IF r.raised = NoError THEN "extracted" ELSE "raised"
    /\ steps' = Append(steps, "extract_metadata")
    /\ UNCHANGED <<doc_source, extractor, tex_macros, doc_tex>>

\* The names read so far.
Read(name) == \E i \in 1..Len(steps) : steps[i] = name

\* A first read of a lazily parsed LsstLatexDoc property with the outcome r
\* of its parse method: the attributes set before an exception stay set,
\* the exception reaches the reader.
LsstRead(name, r) ==
    /\ dstate = "expanded"
    /\ extractor = "lsstdoc"
    /\ ~Read(name)
    /\ metadata' = r.fields @@ metadata
    /\ doc_raised' = IF r.raised = NoError THEN doc_raised ELSE r.raised
    /\ steps' = Append(steps, name)
    /\ UNCHANGED <<doc_source, extractor, tex_macros, doc_tex, dstate>>

\* LsstLatexDoc.title
LsstReadTitle == \E r \in {LsstParseTitle(doc_tex)} : LsstRead("title", r)

\* LsstLatexDoc.abstract
LsstReadAbstract == \E r \in {LsstParseAbstract(doc_tex)} : LsstRead("abstract", r)

\* LsstLatexDoc.authors
LsstReadAuthors == \E r \in {LsstParseAuthor(doc_tex)} : LsstRead("authors", r)

\* LsstLatexDoc.handle
LsstReadHandle == \E r \in {LsstParseDocRef(doc_tex)} : LsstRead("handle", r)

DocNext ==
    \/ ScrapeMacros /\ UNCHANGED <<parseVars, normVars, readVars, macroVars, auxVars>>
    \/ RaiseScrapeMacros /\ UNCHANGED <<parseVars, normVars, readVars, macroVars, auxVars>>
    \/ ExpandMacros /\ UNCHANGED <<parseVars, normVars, readVars, macroVars, auxVars>>
    \/ ExtractMetadata /\ UNCHANGED <<parseVars, normVars, readVars, macroVars, auxVars>>
    \/ LsstReadTitle /\ UNCHANGED <<parseVars, normVars, readVars, macroVars, auxVars>>
    \/ LsstReadAbstract /\ UNCHANGED <<parseVars, normVars, readVars, macroVars, auxVars>>
    \/ LsstReadAuthors /\ UNCHANGED <<parseVars, normVars, readVars, macroVars, auxVars>>
    \/ LsstReadHandle /\ UNCHANGED <<parseVars, normVars, readVars, macroVars, auxVars>>

SpecDoc == DocInit /\ [][DocNext]_vars

-----------------------------------------------------------------------------
\* Claims about a document parse, checked under SpecDoc.

\* Every occurrence of step `later` in the log has step `earlier` before it.
Before(earlier, later) ==
    \A j \in 1..Len(steps) :
        steps[j] = later => \E i \in 1..(j - 1) : steps[i] = earlier

ExtractionSteps == {"extract_metadata", "title", "abstract", "authors", "handle"}

\* get_macros raised out of the document parse.
ScrapeRaised == doc_raised.kind # "none" /\ doc_raised.field = "tex_macros"

\* C18: in a document parse the macro table is scraped from the flattened
\* source before any macro is expanded, tex_macros keeps that pre-expansion
\* table through the rest of the parse, and metadata is extracted only
\* after the expansion, from the expanded source.
C18_MacrosScrapedBeforeExpansion ==
    /\ Read("get_macros") /\ ~ScrapeRaised
          => tex_macros = GetMacros(doc_source).table
    /\ Before("get_macros", "replace_macros")
    /\ \A name \in ExtractionSteps : Before("replace_macros", name)
    /\ Read("replace_macros") => doc_tex = ReplaceMacros(doc_source, tex_macros)
    /\ ~Read("replace_macros") => metadata = <<>>
    /\ dstate = "extracted" =>
          /\ LastField(ParseAll(doc_tex, DocTitleCommand), "long_title").kind = "ok"
          /\ metadata["title"] =
                LastField(ParseAll(doc_tex, DocTitleCommand), "long_title").value

\* A finished article parse of \def\b{B}\title{\b}: the table holds \b, the
\* expansion has rewritten the definition so that the expanded source
\* declares no macro any more, and the title is the expanded one.
C18_Witness ==
    /\ dstate = "extracted"
    /\ doc_source = DefPiece \o MacroB \o <<"{", "B", "}">>
                    \o Backslash \o TitleName \o <<"{">> \o MacroB \o <<"}">>
    /\ tex_macros = <<MacroEntry(MacroB, <<"B">>)>>
    /\ GetMacros(doc_tex).table = <<>>
    /\ metadata["title"] = <<"B">>

\* C19: when the source holds several \title invocations, the extracted
\* title is the long-title argument of the last one in source order, for
\* the article extractor and for LsstLatexDoc.
C19_LastTitleWins ==
    (/\ "title" \in DOMAIN metadata
     /\ ParseAll(doc_tex, DocTitleCommand).kind = "ok"
     /\ Len(ParseAll(doc_tex, DocTitleCommand).items) >= 2)
        =>    metadata["title"] =
                 GetElementByName(LastOf(ParseAll(doc_tex, DocTitleCommand).items),
                                  "long_title").content

\* C20: a parse error of the command parser while one of the fields
\* abstract, authors, handle or date is extracted never reaches the caller.
C20_FieldParseErrorCaught ==
    (doc_raised.kind # "none" /\ doc_raised.parser)
        => doc_raised.field \notin {"abstract", "authors", "handle", "date_modified"}
-----------------------------------------------------------------------------
(* LsstLatexDoc(tex_source): is_draft and revision_datetime                *)

DocumentclassName ==
    <<"d", "o", "c", "u", "m", "e", "n", "t", "c", "l", "a", "s", "s">>
Lsstdraft == <<"l", "s", "s", "t", "d", "r", "a", "f", "t">>
Today == <<"\\", "t", "o", "d", "a", "y">>

\* \documentclass[options]{class_name}
DocumentclassCommand ==
    LaTeXCommand(DocumentclassName, <<Element(0, "[", FALSE, "options"),
                                      Element(1, "{", TRUE, "class_name")>>)

\* \date{content}, as _parse_revision_date declares it.
RevisionDateCommand == LaTeXCommand(DateName, <<Element(0, "{", TRUE, "content")>>)

\* [opt.strip() for opt in content.split(",")]
RECURSIVE StripEach(_)
StripEach(parts) ==
    IF parts = <<>> THEN <<>>
    ELSE <<Strip(Head(parts))>> \o StripEach(Tail(parts))

\* The body of _parse_documentclass on the outcome f of
\* next(command.parse(tex)): StopIteration sets the options to [] and falls
\* through to parsed["options"] with `parsed` unbound.
DocumentclassAttributes(f) ==
    IF f.kind = "StopIteration"
    THEN [raised |-> [kind |-> "UnboundLocalError", field |-> "is_draft",
                      parser |-> FALSE],
          fields |-> ("document_options" :> <<>>)]
    ELSE IF f.kind = "ParseError"
    THEN [raised |-> LsstRaised("is_draft"), fields |-> <<>>]
    ELSE IF ~ContainsName(f.parsed, "options")
    THEN [raised |-> NoError, fields |-> ("document_options" :> <<>>)]
    ELSE [raised |-> NoError,
          fields |-> ("document_options" :>
              StripEach(SplitOn(GetElementByName(f.parsed, "options").content,
                                <<",">>)))]

\* LsstLatexDoc._parse_documentclass
LsstParseDocumentclass(s) ==
    DocumentclassAttributes(ParseFirst(s, DocumentclassCommand))

\* "lsstdraft" in self._document_options
HasDraftOption(options) == \E i \in 1..Len(options) : options[i] = Lsstdraft

\* LsstLatexDoc.is_draft on the attributes `attrs`, with the outcome r of
\* _parse_documentclass should it have to run: the value returned, the
\* attributes set, the exception raised.
IsDraft(attrs, r) ==
    IF "document_options" \in DOMAIN attrs
    THEN [raised |-> NoError, fields |-> <<>>,
          value |-> HasDraftOption(attrs["document_options"])]
    ELSE IF r.raised # NoError
    THEN [raised |-> r.raised, fields |-> r.fields, value |-> None]
    ELSE [raised |-> NoError, fields |-> r.fields,
          value |-> HasDraftOption(r.fields["document_options"])]

\* int() of a decimal number.
DigitValue(c) == CHOOSE n \in 0..9 : <<"0", "1", "2", "3", "4", "5", "6", "7", "8", "9">>[n + 1] = c

RECURSIVE IntOf(_)
IntOf(text) ==
    IF text = <<>> THEN 0
    ELSE 10 * IntOf(SubSeq(text, 1, Len(text) - 1)) + DigitValue(text[Len(text)])

AllDigits(text) == \A i \in 1..Len(text) : text[i] \in Digits

\* %Y of strptime: \d\d\d\d
IsYear(text) == Len(text) = 4 /\ AllDigits(text)

\* %m of strptime: 1[0-2]|0[1-9]|[1-9]
IsMonth(text) ==
    /\ Len(text) \in {1, 2}
    /\ AllDigits(text)
    /\ IntOf(text) \in 1..12

\* %d of strptime: 3[01]|[12]\d|0[1-9]|[1-9]| [1-9]
IsDay(text) ==
    \/ Len(text) \in {1, 2} /\ AllDigits(text) /\ IntOf(text) \in 1..31
    \/ Len(text) = 2 /\ text[1] = " " /\ text[2] \in Digits \ {"0"}

\* calendar.isleap
IsLeap(year) == year % 4 = 0 /\ (year % 100 # 0 \/ year % 400 = 0)

\* The days of a month, as datetime checks them.
DaysIn(year, month) ==
    IF month = 2 THEN (IF IsLeap(year) THEN 29 ELSE 28)
    ELSE IF month \in {4, 6, 9, 11} THEN 30 ELSE 31

\* datetime.datetime.strptime(text, "%Y-%m-%d"): the date, or ValueError.
Strptime(text) ==
    LET parts == SplitOn(text, <<"-">>)
    IN  IF Len(parts) # 3 \/ ~IsYear(parts[1]) \/ ~IsMonth(parts[2]) \/ ~IsDay(parts[3])
        THEN [kind |-> "ValueError"]
        ELSE IF IntOf(parts[1]) = 0
                \/ IntOf(Strip(parts[3])) > DaysIn(IntOf(parts[1]), IntOf(parts[2]))
        THEN [kind |-> "ValueError"]
        ELSE [kind |-> "ok", year |-> IntOf(parts[1]), month |-> IntOf(parts[2]),
              day |-> IntOf(Strip(parts[3]))]

\* project_tz.localize(doc_datetime).astimezone(pytz.utc): the start of the
\* day in US/Pacific, as a UTC datetime.
PacificMidnightUtc(d) ==
    [year |-> d.year, month |-> d.month, day |-> d.day,
     localized |-> "US/Pacific", tz |-> "UTC"]

\* pytz.utc.localize(datetime.datetime.now())
UtcNow(clock) == [instant |-> clock, tz |-> "UTC"]

\* doc_datetime = None
NoDatetime == [kind |-> "None"]

\* The \date attempt of _parse_revision_date on the outcome f of
\* next(date_command.parse(tex)): doc_datetime.
TexDatetime(f) ==
    IF f.kind = "StopIteration" THEN NoDatetime
    ELSE IF Strip(GetElementByName(f.parsed, "content").content) = Today
    THEN NoDatetime
    ELSE IF Strptime(Strip(GetElementByName(f.parsed, "content").content)).kind # "ok"
    THEN NoDatetime
    ELSE [kind |-> "ok",
          value |-> PacificMidnightUtc(
              Strptime(Strip(GetElementByName(f.parsed, "content").content)))]

\* The fallbacks taken with the Git lookup consulted before the \date attempt.
RevisionAttributesGitFirst(tex_datetime, git, clock) ==
    IF git.kind = "ok"
    THEN ("datetime" :> git.value) @@ ("revision_datetime_source" :> "git")
    ELSE IF tex_datetime # NoDatetime
    THEN ("datetime" :> tex_datetime.value) @@ ("revision_datetime_source" :> "tex")
    ELSE ("datetime" :> UtcNow(clock)) @@ ("revision_datetime_source" :> "now")

\* The fallbacks of _parse_revision_date for the \date attempt's result.
RevisionAttributes(tex_datetime, git, clock) ==
    IF tex_datetime # NoDatetime
    THEN ("datetime" :> tex_datetime.value) @@ ("revision_datetime_source" :> "tex")
    ELSE IF git.kind = "ok"
    THEN ("datetime" :> git.value) @@ ("revision_datetime_source" :> "git")
    ELSE ("datetime" :> UtcNow(clock)) @@ ("revision_datetime_source" :> "now")

\* LsstLatexDoc._parse_revision_date with the outcome `draft` of is_draft
\* and the outcome f of next(date_command.parse(tex)).
RevisionDate(draft, f, git, clock) ==
    IF draft.raised # NoError
    THEN [raised |-> draft.raised, fields |-> draft.fields]
    ELSE IF ~draft.value /\ f.kind = "ParseError"
    THEN [raised |-> LsstRaised("revision_datetime"), fields |-> draft.fields]
    ELSE [raised |-> NoError,
          fields |-> RevisionAttributes(IF draft.value THEN NoDatetime ELSE TexDatetime(f),
                                        git, clock)
                     @@ draft.fields]

LsstParseRevisionDate(attrs, s, git, clock) ==
    RevisionDate(IsDraft(attrs, LsstParseDocumentclass(s)),
                 ParseFirst(s, RevisionDateCommand), git, clock)

\* Pieces of the sources given to LsstLatexDoc(tex_source).
LsstPieces ==
    {Backslash \o DocumentclassName \o <<"[">> \o Lsstdraft \o <<"]", "{", "d", "}">>,
     Backslash \o DocumentclassName \o <<"{", "d", "}">>,
     Backslash \o DocumentclassName \o <<"{">>,
     Backslash \o DateName \o <<"{", "2", "0", "2", "0", "-", "0", "1", "-", "0", "1", "}">>,
     Backslash \o DateName \o <<"{", " ", "2", "0", "2", "0", "-", "2", "-", "2", "9", " ", "}">>,
     Backslash \o DateName \o <<"{", "2", "0", "2", "1", "-", "0", "2", "-", "2", "9", "}">>,
     Backslash \o DateName \o <<"{">> \o Today \o <<"}">>,
     Backslash \o DateName \o <<"{">>,
     Backslash \o TitleName \o <<"{", "A", "}">>,
     Backslash \o AbstractName \o <<"{", "x", "}">>}

\* What get_content_commit_date gives: the newest commit datetime of a
\* content file, or RuntimeError when it finds no content file.
CommitDates == {[kind |-> "ok", value |-> [instant |-> 1, tz |-> "git"]],
                [kind |-> "RuntimeError"]}

\* The state after LsstLatexDoc(tex_source) returned.
LsstInit ==
    /\ ParseIdle
    /\ NormIdle
    /\ ReadIdle
    /\ MacroIdle
    /\ RestIdle
    /\ \E k \in 0..MaxLsstPieces : \E ps \in [1..k -> LsstPieces] :
          doc_tex = Flatten(ps)
    /\ doc_source = <<>>
    /\ extractor = "lsstdoc"
    /\ tex_macros = <<>>
    /\ metadata = <<>>
    /\ dstate = "expanded"
    /\ steps = <<>>
    /\ doc_raised = NoError
    /\ commit_date \in CommitDates
    /\ now = 2

\* LsstLatexDoc.is_draft, read for the first time.
LsstReadIsDraft ==
    /\ dstate = "expanded"
    /\ extractor = "lsstdoc"
    /\ ~Read("is_draft")
    /\ \E r \in {IsDraft(metadata, LsstParseDocumentclass(doc_tex))} :
          /\ metadata' = (IF r.raised = NoError THEN ("is_draft" :> r.value) ELSE <<>>)
                         @@ r.fields @@ metadata
          /\ doc_raised' = IF r.raised = NoError THEN doc_raised ELSE r.raised
    /\ steps' = Append(steps, "is_draft")
    /\ UNCHANGED <<doc_source, extractor, tex_macros, doc_tex, dstate>>

\* LsstLatexDoc.revision_datetime / revision_datetime_source, read for the
\* first time.
LsstReadRevisionDatetime ==
    /\ dstate = "expanded"
    /\ extractor = "lsstdoc"
    /\ ~Read("revision_datetime")
    /\ \E r \in {LsstParseRevisionDate(metadata, doc_tex, commit_date, now)} :
          /\ metadata' = r.fields @@ metadata
          /\ doc_raised' = IF r.raised = NoError THEN doc_raised ELSE r.raised
    /\ steps' = Append(steps, "revision_datetime")
    /\ UNCHANGED <<doc_source, extractor, tex_macros, doc_tex, dstate>>

LsstNext ==
    \/ LsstReadTitle /\ UNCHANGED <<parseVars, normVars, readVars, macroVars, auxVars>>
    \/ LsstReadAbstract /\ UNCHANGED <<parseVars, normVars, readVars, macroVars, auxVars>>
    \/ LsstReadIsDraft /\ UNCHANGED <<parseVars, normVars, readVars, macroVars, auxVars>>
    \/ LsstReadRevisionDatetime /\ UNCHANGED <<parseVars, normVars, readVars, macroVars, auxVars>>

SpecLsst == LsstInit /\ [][LsstNext]_vars
-----------------------------------------------------------------------------
\* Claims about LsstLatexDoc, checked under SpecLsst.

\* The source holds no invocation of the command.
NoInvocation(cmd) == FindCommand(doc_tex, 1, cmd.name) = 0

\* The read of the field let an exception reach the reader.
ReadRaised(field) == doc_raised.kind # "none" /\ doc_raised.field = field

\* C21: for LsstLatexDoc, reading a field whose command has no invocation in
\* the source never raises: title, short_title, abstract and handle are
\* None, authors is the empty list, is_draft is False.
C21_AbsentFieldReadsAsNone ==
    /\ (Read("title") /\ NoInvocation(DocTitleCommand)) =>
          /\ ~ReadRaised("title")
          /\ metadata["title"] = None
          /\ metadata["short_title"] = None
    /\ (Read("abstract") /\ NoInvocation(DocAbstractCommand)) =>
          /\ ~ReadRaised("abstract")
          /\ metadata["abstract"] = None
    /\ (Read("authors") /\ NoInvocation(DocAuthorCommand)) =>
          /\ ~ReadRaised("authors")
          /\ metadata["authors"] = <<>>
    /\ (Read("handle") /\ NoInvocation(DocRefCommand)) =>
          /\ ~ReadRaised("handle")
          /\ metadata["handle"] = None
    /\ (Read("is_draft") /\ NoInvocation(DocumentclassCommand)) =>
          /\ ~ReadRaised("is_draft")
          /\ "is_draft" \in DOMAIN metadata
          /\ metadata["is_draft"] = FALSE

\* The document declares the lsstdraft option.
DeclaredDraft ==
    LET r == LsstParseDocumentclass(doc_tex)
    IN  /\ "document_options" \in DOMAIN r.fields
        /\ HasDraftOption(r.fields["document_options"])

\* The content of the first \date invocation, trimmed, as a date; ValueError
\* when there is none or it is no YYYY-MM-DD date.
DeclaredDate ==
    LET f == ParseFirst(doc_tex, RevisionDateCommand)
    IN  IF f.kind # "ok" THEN [kind |-> "ValueError"]
        ELSE Strptime(Strip(GetElementByName(f.parsed, "content").content))

-----------------------------------------------------------------------------
(* LsstLatexDoc(tex_source).authors over the arguments of \author          *)

And == <<"a", "n", "d", " ">>

AuthorPieces == {<<"A">>, <<"B">>, <<",">>, <<"~">>, <<"\n">>, <<" ">>, And,
                 <<"a", "n", "d">>}

\* The state after LsstLatexDoc(tex_source) returned, the source being one
\* \author invocation.
AuthorInit ==
    /\ ParseIdle
    /\ NormIdle
    /\ ReadIdle
    /\ MacroIdle
    /\ AuxIdle
    /\ \E k \in 0..MaxAuthorPieces : \E ps \in [1..k -> AuthorPieces] :
          doc_tex = Backslash \o AuthorName \o <<"{">> \o Flatten(ps) \o <<"}">>
    /\ doc_source = <<>>
    /\ extractor = "lsstdoc"
    /\ tex_macros = <<>>
    /\ metadata = <<>>
    /\ dstate = "expanded"
    /\ steps = <<>>
    /\ doc_raised = NoError

AuthorNext ==
    \/ LsstReadAuthors /\ UNCHANGED <<parseVars, normVars, readVars, macroVars, auxVars>>

SpecAuthor == AuthorInit /\ [][AuthorNext]_vars

\* Claims about the author list, checked under SpecAuthor.

\* The argument of \author in the source.
AuthorArgument == SubSeq(doc_tex, Len(AuthorName) + 3, Len(doc_tex) - 1)

\* The k-th smallest element of a set of numbers.
Kth(S, k) == CHOOSE x \in S : Cardinality({y \in S : y < x}) = k - 1

\* The pieces of s between the separators of the given width that start at
\* the positions `cuts`, left to right.
Between(s, cuts, width) ==
    [k \in 1..(Cardinality(cuts) + 1) |->
        SubSeq(s,
               IF k = 1 THEN 1 ELSE Kth(cuts, k - 1) + width,
               IF k = Cardinality(cuts) + 1 THEN Len(s) ELSE Kth(cuts, k) - 1)]

\* The pieces between the commas, trimmed.
CommaPieces(s) ==
    LET b == Between(s, {i \in 1..Len(s) : s[i] = ","}, 1)
    IN  [k \in 1..Len(b) |-> Trimmed(b[k])]

\* The pieces of a comma piece between its "and " tokens, trimmed.
AndPieces(p) ==
    LET b == Between(p, {i \in 1..Len(p) : HasAt(p, i, And)}, Len(And))
    IN  [k \in 1..Len(b) |-> Trimmed(b[k])]

\* The non-empty pieces of the first n comma pieces, in order.
RECURSIVE NamesThrough(_, _)
NamesThrough(pieces, n) ==
    IF n = 0 THEN <<>>
    ELSE NamesThrough(pieces, n - 1)
            \o SelectSeq(AndPieces(pieces[n]), LAMBDA x : x # <<>>)

\* The argument with newlines and tildes read as spaces.
Spaced(s) == [i \in 1..Len(s) |-> IF s[i] \in {"\n", "~"} THEN " " ELSE s[i]]

\* C22: the author list is the argument of \author split on commas, each
\* piece split on "and ", the pieces trimmed and the empty ones dropped, in
\* source order; no author is empty, has leading or trailing whitespace, or
\* contains a comma, a tilde or a newline.
C22_AuthorsSplitAndTrimmed ==
    Read("authors") =>
        /\ ~ReadRaised("authors")
        /\ LET pieces == CommaPieces(Trimmed(Spaced(AuthorArgument)))
           IN  metadata["authors"] = NamesThrough(pieces, Len(pieces))
        /\ \A i \in 1..Len(metadata["authors"]) :
              LET author == metadata["authors"][i]
              IN  /\ author # <<>>
                  /\ author[1] \notin WhitespaceChars
                  /\ author[Len(author)] \notin WhitespaceChars
                  /\ \A j \in 1..Len(author) : author[j] \notin {",", "~", "\n"}

\* \author{A~and B} read as the authors A and B.
C22_Witness ==
    /\ Read("authors")
    /\ AuthorArgument = <<"A", "~">> \o And \o <<"B">>
    /\ metadata["authors"] = << <<"A">>, <<"B">> >>
-----------------------------------------------------------------------------
(* FormattedString.from_latex *)

\* WHITESPACE_PATTERN.sub(" ", text) from position i on: every run of
\* whitespace becomes one space.
RECURSIVE WhitespaceSubFrom(_, _)
WhitespaceSubFrom(text, i) ==
    IF i > Len(text) THEN <<>>
    ELSE IF text[i] \in WhitespaceChars
    THEN (IF i > 1 /\ text[i - 1] \in WhitespaceChars THEN <<>> ELSE <<" ">>)
            \o WhitespaceSubFrom(text, i + 1)
    ELSE <<text[i]>> \o WhitespaceSubFrom(text, i + 1)

\* collapse_whitespace(text)
CollapseWhitespace(text) == Strip(WhitespaceSubFrom(text, 1))

\* bleach.clean(v, strip=True, tags=[...]) on text without angle brackets
\* or character references: a bare ampersand is escaped.
RECURSIVE BleachClean(_)
BleachClean(v) ==
    IF v = <<>> THEN <<>>
    ELSE (IF Head(v) = "&" THEN <<"&", "a", "m", "p", ";">> ELSE <<Head(v)>>)
            \o BleachClean(Tail(v))

\* The validator of the html field.
SantizeHtml(v) == BleachClean(v)

\* The validator of every field.
CleanWhitespace(v) == CollapseWhitespace(v)

\* FormattedString(html=..., plain=..., latex=...): the validated model.
FormattedString(html, plain, latex) ==
    [kind |-> "FormattedString",
     html |-> CleanWhitespace(SantizeHtml(html)),
     plain |-> CleanWhitespace(plain),
     latex |-> CleanWhitespace(latex)]

\* try: convert_text(content=tex, ...) except Exception: tex
\* on the outcome of the conversion.
ConvertedOr(outcome, tex) ==
    IF outcome.kind = "ok" THEN outcome.value ELSE tex

\* from_latex with one try statement around both conversions: a failure of
\* either makes both encodings fall back.
FromLatexOneTry(tex, convert) ==
    IF convert["plain"].kind = "ok" /\ convert["html"].kind = "ok"
    THEN FormattedString(convert["html"].value, convert["plain"].value, tex)
    ELSE FormattedString(tex, tex, tex)

\* from_latex(tex, fragment=...); convert[fmt] is what convert_text does
\* when asked for output format fmt.
FromLatex(tex, convert) ==
    FormattedString(ConvertedOr(convert["html"], tex),
                    ConvertedOr(convert["plain"], tex), tex)

TexPieces == {<<"a">>, <<" ">>, <<"\n">>, <<"&">>}

\* What a call of convert_text can do: raise, or return the converted text
\* (pandoc ends its output with a newline).
PandocOutcomes == {[kind |-> "Exception"],
                   [kind |-> "ok", value |-> <<"x", "\n">>],
                   [kind |-> "ok", value |-> <<"x", " ", "&", " ", "y", "\n">>]}

OutputFormats == {"plain", "html"}

FsInit ==
    /\ ParseIdle
    /\ NormIdle
    /\ ReadIdle
    /\ MacroIdle
    /\ DocIdle
    /\ EnvIdle
    /\ OrcidIdle
    /\ BibIdle
    /\ LinkIdle
    /\ UploadIdle
    /\ \E k \in 0..MaxTexPieces : \E ps \in [1..k -> TexPieces] :
          fs_tex = Flatten(ps)
    /\ pandoc \in [OutputFormats -> PandocOutcomes]
    /\ fs = NoError
    /\ fstate = "called"

CallFromLatex ==
    /\ fstate = "called"
    /\ fs' = FromLatex(fs_tex, pandoc)
    /\ fstate' = "returned"
    /\ UNCHANGED <<fs_tex, pandoc>>

FsNext ==
    \/ CallFromLatex /\ UNCHANGED <<parseVars, normVars, readVars, macroVars, docVars, envVars, orcidVars, bibVars, linkVars, uploadVars>>

SpecFormat == FsInit /\ [][FsNext]_vars

\* Claims about from_latex, checked under SpecFormat.

\* The encoding of the returned string for output format fmt.
Encoding(fmt) == IF fmt = "html" THEN fs.html ELSE fs.plain

\* What the validators of the field for fmt make of `text`.
Stored(fmt, text) ==
    IF fmt = "html" THEN CollapseWhitespace(BleachClean(text))
    ELSE CollapseWhitespace(text)

-----------------------------------------------------------------------------
(* Orcid.validate / Orcid.verify_checksum *)

\* The character class [0-9X] of ORCID_PATTERN.
OrcidChars == Digits \cup {"X"}

\* ORCID_PATTERN matches at position i of value:
\* [0-9X]{4}-[0-9X]{4}-[0-9X]{4}-[0-9X]{4}
OrcidMatchAt(value, i) ==
    /\ i + 18 <= Len(value)
    /\ \A k \in 0..18 :
          IF k \in {4, 9, 14} THEN value[i + k] = "-"
          ELSE value[i + k] \in OrcidChars

\* ORCID_PATTERN.search(value): the first match, or NoMatch.
OrcidSearch(value) ==
    LET found == {i \in 1..Len(value) : OrcidMatchAt(value, i)}
    IN  IF found = {} THEN NoMatch
        ELSE [kind |-> "match", identifier |-> SubSeq(value, Min(found), Min(found) + 18)]

\* The loop of verify_checksum over identifier[i..]: `total` after it.
RECURSIVE ChecksumTotal(_, _, _)
ChecksumTotal(identifier, i, total) ==
    IF i > Len(identifier) THEN total
    ELSE IF identifier[i] = "X"
    THEN ChecksumTotal(identifier, i + 1, (total + 10) * 2)
    ELSE IF identifier[i] \notin Digits
    THEN ChecksumTotal(identifier, i + 1, total)
    ELSE ChecksumTotal(identifier, i + 1, (total + DigitValue(identifier[i])) * 2)

\* verify_checksum with the test for "X" left out: "X" is skipped like a
\* hyphen.
VerifyChecksumDigitsOnly(identifier) ==
    (12 - (ChecksumTotal(SelectSeq(identifier, LAMBDA c : c # "X"), 1, 0) % 11)) % 11 = 10

\* Orcid.verify_checksum(identifier)
VerifyChecksum(identifier) ==
    (12 - (ChecksumTotal(identifier, 1, 0) % 11)) % 11 = 10

OrcidOrg == <<"h", "t", "t", "p", "s", ":", "/", "/", "o", "r", "c", "i", "d",
              ".", "o", "r", "g", "/">>

\* Orcid.validate(value) for a value that is not an Orcid already.
OrcidValidate(value) ==
    LET m == OrcidSearch(value)
    IN  IF m = NoMatch THEN [kind |-> "OrcidError"]
        ELSE IF ~VerifyChecksum(m.identifier) THEN [kind |-> "OrcidError"]
        ELSE [kind |-> "Orcid", url |-> OrcidOrg \o m.identifier]

\* The identifiers of test_orcid.
TestOrcids ==
    {<<"0", "0", "0", "0", "0", "0", "0", "2", "1", "8", "2", "5", "0", "0", "9", "7">>,
     <<"0", "0", "0", "0", "0", "0", "0", "1", "5", "1", "0", "9", "3", "7", "0", "0">>,
     <<"0", "0", "0", "0", "0", "0", "0", "2", "1", "6", "9", "4", "2", "3", "3", "X">>}

\* The characters the varying digits are drawn from.
FreeChars == {"0", "2", "3", "9", "X"}

\* The 16 characters c written as an identifier: 4-4-4-4.
Hyphenated(c) ==
    SubSeq(c, 1, 4) \o <<"-">> \o SubSeq(c, 5, 8) \o <<"-">>
        \o SubSeq(c, 9, 12) \o <<"-">> \o SubSeq(c, 13, 16)

\* The forms a value comes in: the identifier, its orcid.org URL, and the
\* sixteen characters without hyphens.
OrcidForms(c) == {Hyphenated(c), OrcidOrg \o Hyphenated(c), c}

OrcidInit ==
    /\ ParseIdle
    /\ NormIdle
    /\ ReadIdle
    /\ MacroIdle
    /\ DocIdle
    /\ EnvIdle
    /\ FsIdle
    /\ BibIdle
    /\ LinkIdle
    /\ UploadIdle
    /\ \E t \in TestOrcids : \E free \in [1..MaxOrcidFree -> FreeChars] :
       \E check \in OrcidChars :
          orcid_value \in
              OrcidForms(SubSeq(t, 1, 15 - MaxOrcidFree) \o free \o <<check>>)
    /\ orcid = NoError
    /\ ostate = "value"

CallVerifyChecksum ==
    /\ ostate = "value"
    /\ orcid' = [kind |-> "bool", value |-> VerifyChecksum(orcid_value)]
    /\ ostate' = "verify_checksum"
    /\ UNCHANGED orcid_value

CallOrcidValidate ==
    /\ ostate = "value"
    /\ orcid' = OrcidValidate(orcid_value)
    /\ ostate' = "validate"
    /\ UNCHANGED orcid_value

OrcidNext ==
    \/ CallVerifyChecksum /\ UNCHANGED <<parseVars, normVars, readVars, macroVars, docVars, envVars, fsVars, bibVars, linkVars, uploadVars>>
    \/ CallOrcidValidate /\ UNCHANGED <<parseVars, normVars, readVars, macroVars, docVars, envVars, fsVars, bibVars, linkVars, uploadVars>>

SpecOrcid == OrcidInit /\ [][OrcidNext]_vars

\* Claims about ORCiD identifiers, checked under SpecOrcid.

\* The sixteen characters of the identifier in the value, hyphens and any
\* orcid.org prefix left out.
OrcidCharacters == SelectSeq(orcid_value, LAMBDA c : c \in OrcidChars)

\* The value holds an identifier in its hyphenated form.
IsIdentifier == OrcidSearch(orcid_value) # NoMatch

\* "X" stands for 10.
OrcidDigit(c) == IF c = "X" THEN 10 ELSE DigitValue(c)

\* ISO 7064 MOD 11-2 over the digits c: the sum of the digits, each weighted
\* by 2 to the number of digits that follow it and by 2 once more.
RECURSIVE WeightedSum(_)
WeightedSum(c) ==
    IF c = <<>> THEN 0
    ELSE OrcidDigit(Head(c)) * (2 ^ Len(c)) + WeightedSum(Tail(c))

\* The ISO 7064 MOD 11-2 check character over the digits c: the value v in
\* 0..10 with (weighted sum + v) congruent to 1 modulo 11, "X" written
\* for 10.
IsoCheckCharacter(c) ==
    CHOOSE ch \in OrcidChars : (WeightedSum(c) + OrcidDigit(ch)) % 11 = 1

\* C25: verify_checksum accepts a 16-character identifier exactly when its
\* last character is the ISO 7064 MOD 11-2 check character of its first 15
\* digits, and validate raises OrcidError for every identifier that fails
\* the check.
C25_ChecksumIsIso7064 ==
    /\ ostate = "verify_checksum" /\ Len(OrcidCharacters) = 16 =>
          (orcid.value <=>
              OrcidCharacters[16] = IsoCheckCharacter(SubSeq(OrcidCharacters, 1, 15)))
    /\ ostate = "validate" /\ IsIdentifier /\ Len(OrcidCharacters) = 16
          /\ OrcidCharacters[16] # IsoCheckCharacter(SubSeq(OrcidCharacters, 1, 15)) =>
          orcid.kind = "OrcidError"

\* verify_checksum accepts 0000-0002-1694-233X, whose check character
\* is X.
C25_Witness ==
    /\ ostate = "verify_checksum"
    /\ orcid_value = Hyphenated(<<"0", "0", "0", "0", "0", "0", "0", "2", "1", "6",
                                  "9", "4", "2", "3", "3", "X">>)
    /\ orcid.value
-----------------------------------------------------------------------------
(* A further claim about the command parser, checked under SpecParse *)

\* C26: with an optional [] slot followed by a required {} slot, an
\* invocation whose command name is directly followed by a balanced brace
\* group parses with the optional slot absent and the required slot equal to
\* the stripped content of that brace group, wherever a '[' occurs later.
C26_OptionalAbsentBeforeBrace ==
    command = TitleCommand =>
    \A pc \in Handled :
        LET i  == pc.start_index + 1
            es == i + Len(command.name) + 1
            ee == BalancePoint(es, "{", "}")
        IN  (source[es] = "{" /\ ee # 0) =>
            /\ pc.kind = "parsed"
            /\ ~ContainsIndex(pc, 0)
            /\ ContainsIndex(pc, 1)
            /\ GetElementByIndex(pc, 1).content
                  = Strip(SubSeq(source, es + 1, ee - 1))
-----------------------------------------------------------------------------
(* get_lsst_bibtex and the module-level cache *)

KNOWN_LSSTTEXMF_BIB_NAMES == <<"lsst", "lsst-dm", "refs", "books", "refs_ads">>

KnownNames ==
    {KNOWN_LSSTTEXMF_BIB_NAMES[i] : i \in 1..Len(KNOWN_LSSTTEXMF_BIB_NAMES)}

\* A file name: directory, stem and extension.
Filename(dir, stem, ext) == [dir |-> dir, stem |-> stem, ext |-> ext]

\* os.path.basename(os.path.splitext(filename)[0])
Basename(filename) == filename.stem

\* The sanitizing loop of get_lsst_bibtex: the known names among the file
\* names, in their order.
RECURSIVE SanitizedNames(_)
SanitizedNames(bibtex_filenames) ==
    IF bibtex_filenames = <<>> THEN <<>>
    ELSE (IF Basename(Head(bibtex_filenames)) \notin KnownNames THEN <<>>
          ELSE <<Basename(Head(bibtex_filenames))>>)
            \o SanitizedNames(Tail(bibtex_filenames))

\* bibtex_names for the argument of get_lsst_bibtex.
BibtexNames(args) ==
    IF args.default THEN KNOWN_LSSTTEXMF_BIB_NAMES
    ELSE SanitizedNames(args.filenames)

\* names of bibtex files not in cache
UncachedNames(bibtex_names, cache) ==
    SelectSeq(bibtex_names, LAMBDA name : name \notin DOMAIN cache)

\* The content served at the URL of bibliography `name`.
Remote(name) == [bib |-> name]

\* _download_lsst_bibtex(bibtex_names): the texts, in the order of the names.
DownloadLsstBibtex(bibtex_names) ==
    [i \in 1..Len(bibtex_names) |-> Remote(bibtex_names[i])]

\* for name, text in zip(names, texts): cache[name] = text, from pair i on.
RECURSIVE CacheZip(_, _, _, _)
CacheZip(cache, names, texts, i) ==
    IF i > Len(names) \/ i > Len(texts) THEN cache
    ELSE CacheZip((names[i] :> texts[i]) @@ cache, names, texts, i + 1)

\* The cache after the download step of get_lsst_bibtex:
\* zip(bibtex_names, future.result()).
CachedByDownload(bibtex_names, cache) ==
    LET uncached_names == UncachedNames(bibtex_names, cache)
    IN  CacheZip(cache, bibtex_names, DownloadLsstBibtex(uncached_names), 1)

\* {name: _LSSTTEXMF_BIB_CACHE[name] for name in bibtex_names}
BibtexDict(bibtex_names, cache) ==
    LET missing == {i \in 1..Len(bibtex_names) : bibtex_names[i] \notin DOMAIN cache}
    IN  IF missing # {}
        THEN [kind |-> "KeyError", key |-> bibtex_names[Min(missing)]]
        ELSE [kind |-> "dict",
              value |-> [name \in {bibtex_names[i] : i \in 1..Len(bibtex_names)}
                            |-> cache[name]]]

BibFilenames == {Filename("", "lsst", ""), Filename("bib/", "lsst", ".bib"),
                 Filename("", "refs", ""), Filename("", "local", ".bib")}

BibArguments ==
    {[default |-> TRUE, filenames |-> <<>>]}
    \cup {[default |-> FALSE, filenames |-> names] :
            names \in UNION {[1..k -> BibFilenames] : k \in 0..MaxBibNames}}

BibInit ==
    /\ ParseIdle
    /\ NormIdle
    /\ ReadIdle
    /\ MacroIdle
    /\ DocIdle
    /\ EnvIdle
    /\ FsIdle
    /\ OrcidIdle
    /\ LinkIdle
    /\ UploadIdle
    /\ bib_cache = <<>>
    /\ bib_args = NoError
    /\ bib_result = NoError
    /\ bib_calls = 0

\* get_lsst_bibtex(bibtex_filenames); the downloads succeed.
GetLsstBibtex ==
    /\ bib_calls < MaxBibCalls
    /\ \E args \in BibArguments :
          /\ bib_args' = args
          /\ bib_cache' = CachedByDownload(BibtexNames(args), bib_cache)
          /\ bib_result' = BibtexDict(BibtexNames(args), bib_cache')
    /\ bib_calls' = bib_calls + 1

\* get_lsst_bibtex(bibtex_filenames); a download raises, and so does
\* run_until_complete.
GetLsstBibtexDownloadFails ==
    /\ bib_calls < MaxBibCalls
    /\ \E args \in BibArguments :
          /\ UncachedNames(BibtexNames(args), bib_cache) # <<>>
          /\ bib_args' = args
          /\ bib_result' = [kind |-> "ClientError"]
    /\ bib_calls' = bib_calls + 1
    /\ UNCHANGED bib_cache

BibNext ==
    \/ GetLsstBibtex /\ UNCHANGED <<parseVars, normVars, readVars, macroVars, docVars, envVars, fsVars, orcidVars, linkVars, uploadVars>>
    \/ GetLsstBibtexDownloadFails /\ UNCHANGED <<parseVars, normVars, readVars, macroVars, docVars, envVars, fsVars, orcidVars, linkVars, uploadVars>>

SpecBib == BibInit /\ [][BibNext]_vars

\* Claims about the bibliography cache, checked under SpecBib.

\* The known names the latest call asked for.
Requested ==
    {BibtexNames(bib_args)[i] : i \in 1..Len(BibtexNames(bib_args))}

\* C27: every entry of the cache maps a name to the text downloaded for
\* that name, and a call whose downloads succeed returns a mapping whose
\* keys are exactly the requested known names, each with its own text.
C27_CacheMapsNameToItsText ==
    /\ \A name \in DOMAIN bib_cache : bib_cache[name] = Remote(name)
    /\ bib_calls > 0 /\ bib_result.kind # "ClientError" =>
          /\ bib_result.kind = "dict"
          /\ DOMAIN bib_result.value = Requested
          /\ \A name \in Requested : bib_result.value[name] = Remote(name)
-----------------------------------------------------------------------------
(* BaseCommandLinker.__call__ / CitedsLinker._replace_command *)

\* The first position from i on where `old` occurs in s, 0 when nowhere.
FindText(s, old, i) ==
    LET hits == {j \in i..(Len(s) - Len(old) + 1) :
                    SubSeq(s, j, j + Len(old) - 1) = old}
    IN  IF hits = {} THEN 0 ELSE Min(hits)

\* str.replace(old, new) from position i on: every occurrence, left to
\* right, not overlapping.
RECURSIVE StrReplaceFrom(_, _, _, _)
StrReplaceFrom(s, old, new, i) ==
    LET j == FindText(s, old, i)
    IN  IF j = 0 THEN SubSeq(s, i, Len(s))
        ELSE SubSeq(s, i, j - 1) \o new
                \o StrReplaceFrom(s, old, new, j + Len(old))

StrReplace(s, old, new) == StrReplaceFrom(s, old, new, 1)

\* CitedsLinker and CitedspLinker: command_name and parens.
CitedsLinker ==
    [command_name |-> <<"c", "i", "t", "e", "d", "s">>,
     parens |-> <<<<>>, <<>>>>]

CitedspLinker ==
    [command_name |-> <<"c", "i", "t", "e", "d", "s", "p">>,
     parens |-> <<<<"[">>, <<"]">>>>]

\* self.command of a linker.
LinkerCommand(l) ==
    LaTeXCommand(l.command_name, <<Element(0, "[", FALSE, "title"),
                                   Element(1, "{", TRUE, "citekey")>>)

LsSt == <<"h", "t", "t", "p", "s", ":", "/", "/", "l", "s", ".", "s", "t", "/">>

Href == <<"\\", "h", "r", "e", "f">>

\* self.template.format(url=url, content=content)
HrefCommand(l, url, content) ==
    l.parens[1] \o Href \o <<"{">> \o url \o <<"}">> \o <<"{">> \o content
        \o <<"}">> \o l.parens[2]

\* _replace_command(tex_source, parsed)
ReplaceCommand(l, tex, parsed) ==
    LET citekey == GetElementByName(parsed, "citekey").content
        content == IF ContainsName(parsed, "title")
                   THEN GetElementByName(parsed, "title").content
                   ELSE citekey
    IN  StrReplace(tex, parsed.command_source,
                   HrefCommand(l, LsSt \o citekey, content))

Linkers == {CitedsLinker, CitedspLinker}

LinkPieces(l) ==
    {<<"\\">> \o l.command_name, <<"a">>, <<"{">>, <<"}">>, <<"[">>, <<"]">>,
     <<" ">>, <<"%">>, <<"\n">>}

LinkInit ==
    /\ ParseIdle
    /\ NormIdle
    /\ ReadIdle
    /\ MacroIdle
    /\ DocIdle
    /\ EnvIdle
    /\ FsIdle
    /\ OrcidIdle
    /\ BibIdle
    /\ UploadIdle
    /\ linker \in Linkers
    /\ link_tex = <<>>
    /\ link_parsed = NoError
    /\ lstate = "constructed"

\* linker(tex_source): the loop is entered and the first invocation is
\* looked for. link_parsed holds what next(self.command.parse(tex_source))
\* does on the present tex_source.
LinkCall ==
    /\ lstate = "constructed"
    /\ \E k \in 0..MaxLinkPieces : \E ps \in [1..k -> LinkPieces(linker)] :
          link_tex' = <<"\\">> \o linker.command_name \o Flatten(ps)
    /\ link_parsed' = ParseFirst(link_tex', LinkerCommand(linker))
    /\ lstate' = "running"
    /\ UNCHANGED linker

\* tex_source = self._replace_command(tex_source, parsed)
LinkRound ==
    /\ lstate = "running"
    /\ link_parsed.kind = "ok"
    /\ link_tex' = ReplaceCommand(linker, link_tex, link_parsed.parsed)
    /\ Len(link_tex') <= MaxLinkText

\* One round of the loop: the invocation that was found is replaced, and
\* the next one is looked for.
LinkReplace ==
    /\ LinkRound
    /\ link_parsed' = ParseFirst(link_tex', LinkerCommand(linker))
    /\ UNCHANGED <<linker, lstate>>

\* StopIteration: break, and the text is returned.
LinkReturn ==
    /\ lstate = "running"
    /\ link_parsed.kind = "StopIteration"
    /\ lstate' = "returned"
    /\ UNCHANGED <<linker, link_tex, link_parsed>>

\* The parser raises: the error leaves __call__.
LinkRaise ==
    /\ lstate = "running"
    /\ link_parsed.kind = "ParseError"
    /\ lstate' = "raised"
    /\ UNCHANGED <<linker, link_tex, link_parsed>>

LinkNext ==
    \/ LinkCall /\ UNCHANGED <<parseVars, normVars, readVars, macroVars, docVars, envVars, fsVars, orcidVars, bibVars, uploadVars>>
    \/ LinkReplace /\ UNCHANGED <<parseVars, normVars, readVars, macroVars, docVars, envVars, fsVars, orcidVars, bibVars, uploadVars>>
    \/ LinkReturn /\ UNCHANGED <<parseVars, normVars, readVars, macroVars, docVars, envVars, fsVars, orcidVars, bibVars, uploadVars>>
    \/ LinkRaise /\ UNCHANGED <<parseVars, normVars, readVars, macroVars, docVars, envVars, fsVars, orcidVars, bibVars, uploadVars>>

SpecLink == LinkInit /\ [][LinkNext]_vars

\* The loop runs in one thread: a round that can be taken is taken, and a
\* loop that can end ends. (A round is a LinkReplace step exactly when it
\* is a LinkRound step that changes tex_source.)
SpecLinkFair ==
    SpecLink /\ WF_link_tex(LinkRound) /\ WF_lstate(LinkReturn \/ LinkRaise)

\* Claims about the citation linker, checked under SpecLinkFair.

CappedRound ==
    /\ lstate = "running"
    /\ link_parsed.kind = "ok"
    /\ Len(ReplaceCommand(linker, link_tex, link_parsed.parsed)) > MaxLinkText

\* A round that the length bound keeps the model from taking finds the same
\* invocation, with the same arguments, that the round after it would find:
\* the replacement text holds the replaced invocation, and the loop goes on
\* for ever. (An invariant of SpecLink: only such runs are cut short.)
CappedRoundReproduces ==
    CappedRound =>
        LET next_tex == ReplaceCommand(linker, link_tex, link_parsed.parsed)
            next_parsed == ParseFirst(next_tex, LinkerCommand(linker))
        IN  /\ next_parsed.kind = "ok"
            /\ next_parsed.parsed.command_source = link_parsed.parsed.command_source
            /\ next_parsed.parsed.parsed_elements = link_parsed.parsed.parsed_elements
            /\ ~UsedFallback(link_parsed.parsed)
-----------------------------------------------------------------------------
(* A further claim about process_inputs, checked under SpecRead *)

\* The match m of input_include_pattern in s has the form \input{file}.
BraceForm(s, m) ==
    /\ s[m.end - 1 - Len(m.filename) - 1] = "{"
    /\ s[m.end - 1] = "}"

\* The position after the invocation that m matches: after the closing
\* brace of \input{file}, after the file name of \input file.
InvocationEnd(s, m) == IF BraceForm(s, m) THEN m.end ELSE m.end - 1

\* s from position `from` on, with every invocation replaced by the
\* normalised content of its file and every other character kept.
RECURSIVE Spliced(_, _)
Spliced(s, from) ==
    LET m == FindInclude(s, from)
    IN  IF ~m.matched THEN From(s, from)
        ELSE SubSeq(s, from, m.start - 1)
                \o Cleaned(project[FullFname(m.filename)])
                \o Spliced(s, InvocationEnd(s, m))

\* C29: process_inputs changes only the invocations: when the root file
\* invokes only b.tex, which invokes nothing, the returned text is the root
\* text with each invocation replaced by the normalised content of b.tex,
\* and every other character - the delimiter that ends a brace-less
\* invocation too - unchanged and in the same order.
C29_OnlyInvocationsChange ==
    (/\ rstate = "done"
     /\ pass = 1
     /\ Referenced(Cleaned(project[FileA]), 1) \subseteq {FileB}
     /\ FileB \in DOMAIN project
     /\ "\\" \notin Chars(Cleaned(project[FileB])))
    => flattened = Spliced(Cleaned(project[FileA]), 1)
-----------------------------------------------------------------------------
(* ltdclient.upload / Lander.upload_site *)

\* The status codes LTD Keeper answers with.
StatusCodes == {200, 201, 401, 500}

Tokens == {"t1", "t2", "t3"}

\* The build resources that registration returns: self_url, bucket_name,
\* bucket_root_dir, surrogate_key.
BuildResources == {[self_url |-> "builds/1", bucket_name |-> "bucket"],
                   [self_url |-> "builds/2", bucket_name |-> "bucket"],
                   [self_url |-> "builds/3", bucket_name |-> "other"]}

Configurations ==
    [build_dir_exists : BOOLEAN, ltd_product : {"p1", "p2"}]

Request(step, outcome) == [step |-> step, outcome |-> outcome]

\* get_keeper_token: if r.status_code != 200: raise RuntimeError
TokenOutcome(status_code) == IF status_code # 200 THEN "raised" ELSE "token"

\* register_build without the status test.
RegisterOutcomeUnchecked(status_code) == "registered"

\* register_build: if r.status_code != 201: raise RuntimeError
RegisterOutcome(status_code) ==
    IF status_code # 201 THEN "raised" ELSE "registered"

\* confirm_build: if r.status_code != 200: raise RuntimeError
ConfirmOutcome(status_code) ==
    IF status_code # 200 THEN "raised" ELSE "confirmed"

UploadInit ==
    /\ ParseIdle
    /\ NormIdle
    /\ ReadIdle
    /\ MacroIdle
    /\ DocIdle
    /\ EnvIdle
    /\ FsIdle
    /\ OrcidIdle
    /\ BibIdle
    /\ LinkIdle
    /\ config \in Configurations
    /\ requests = <<>>
    /\ token = NoError
    /\ build_resource = NoError
    /\ ustate = "upload_site"

\* Lander.upload_site: the site must have been built.
UploadSite ==
    /\ ustate = "upload_site"
    /\ ustate' = IF config.build_dir_exists THEN "upload" ELSE "raised"
    /\ UNCHANGED <<config, requests, token, build_resource>>

\* token = get_keeper_token(...)
GetKeeperToken ==
    /\ ustate = "upload"
    /\ \E status_code \in StatusCodes : \E t \in Tokens :
          /\ requests' = Append(requests, Request("GET token", status_code))
          /\ ustate' = TokenOutcome(status_code)
          /\ token' = IF status_code = 200 THEN [kind |-> "token", value |-> t]
                      ELSE token
    /\ UNCHANGED <<config, build_resource>>

\* build_resource = register_build(config, token)
RegisterBuild ==
    /\ ustate = "token"
    /\ \E status_code \in StatusCodes : \E build_info \in BuildResources :
          /\ requests' = Append(requests,
                [step |-> "POST builds", outcome |-> status_code,
                 product |-> config.ltd_product, auth |-> token.value])
          /\ ustate' = RegisterOutcome(status_code)
          /\ build_resource' = IF ustate' = "registered"
                               THEN [kind |-> "build", value |-> build_info]
                               ELSE build_resource
    /\ UNCHANGED <<config, token>>

\* ltdconveyor.upload_dir(...): it returns, or it raises.
UploadDir ==
    /\ ustate = "registered"
    /\ \E ok \in BOOLEAN :
          /\ requests' = Append(requests,
                [step |-> "upload_dir",
                 outcome |-> IF ok THEN "done" ELSE "error",
                 bucket_name |-> build_resource.value.bucket_name])
          /\ ustate' = IF ok THEN "uploaded" ELSE "raised"
    /\ UNCHANGED <<config, token, build_resource>>

\* confirm_build(config, token, build_resource)
ConfirmBuild ==
    /\ ustate = "uploaded"
    /\ \E status_code \in StatusCodes :
          /\ requests' = Append(requests,
                [step |-> "PATCH uploaded", outcome |-> status_code,
                 build_url |-> build_resource.value.self_url,
                 auth |-> token.value])
          /\ ustate' = ConfirmOutcome(status_code)
    /\ UNCHANGED <<config, token, build_resource>>

UploadNext ==
    \/ UploadSite /\ UNCHANGED <<parseVars, normVars, readVars, macroVars, docVars, envVars, fsVars, orcidVars, bibVars, linkVars>>
    \/ GetKeeperToken /\ UNCHANGED <<parseVars, normVars, readVars, macroVars, docVars, envVars, fsVars, orcidVars, bibVars, linkVars>>
    \/ RegisterBuild /\ UNCHANGED <<parseVars, normVars, readVars, macroVars, docVars, envVars, fsVars, orcidVars, bibVars, linkVars>>
    \/ UploadDir /\ UNCHANGED <<parseVars, normVars, readVars, macroVars, docVars, envVars, fsVars, orcidVars, bibVars, linkVars>>
    \/ ConfirmBuild /\ UNCHANGED <<parseVars, normVars, readVars, macroVars, docVars, envVars, fsVars, orcidVars, bibVars, linkVars>>

SpecUpload == UploadInit /\ [][UploadNext]_vars

\* Claims about the upload, checked under SpecUpload.

\* The steps of upload, in order.
UploadSteps == <<"GET token", "POST builds", "upload_dir", "PATCH uploaded">>

\* The outcome with which each step succeeds.
Succeeded(request) ==
    request.outcome = (CASE request.step = "GET token" -> 200
                         [] request.step = "POST builds" -> 201
                         [] request.step = "upload_dir" -> "done"
                         [] request.step = "PATCH uploaded" -> 200)

\* C30: the requests are sent in the order token, registration, directory
\* upload, confirmation, each once; a request is sent only after every
\* earlier one succeeded (the confirmation only after the registration
\* returned 201 and the upload completed), and after a failed request the
\* call has raised, so that nothing more is sent.
C30_UploadStepsInOrder ==
    /\ Len(requests) <= Len(UploadSteps)
    /\ \A k \in 1..Len(requests) :
          /\ requests[k].step = UploadSteps[k]
          /\ \A j \in 1..(k - 1) : Succeeded(requests[j])
          /\ ~Succeeded(requests[k]) => ustate = "raised"
    /\ ustate = "confirmed" =>
          Len(requests) = Len(UploadSteps) /\ Succeeded(requests[Len(requests)])
    /\ (ustate = "raised" /\ ~config.build_dir_exists) => requests = <<>>

\* The registration failed with 401 after the token was given: the call
\* has raised with two requests sent.
C30_Witness ==
    /\ ustate = "raised"
    /\ Len(requests) = 2
    /\ requests[1].outcome = 200
    /\ requests[2].step = "POST builds"
    /\ requests[2].outcome = 401

====
